---- MODULE Spec2Model ----
(***************************************************************************)
(* Model of the semantic linker (src/context/semanticLinker.ts), of the    *)
(* code-analysis helpers it calls (src/utils/codeAnalysisUtils.ts) and of  *)
(* the dependency graph builder with its cache.                            *)
(*                                                                         *)
(*  - buildSemanticGraph: TF-IDF vectors over file summaries, pairwise     *)
(*    cosine similarity, thresholded symmetric links, sorted per file.     *)
(*  - intelligentlySummarizeFileContent: prioritized candidates packed     *)
(*    into a character budget by addContentBlock, a fallback pass over     *)
(*    the uncovered lines, and the final assembly.                         *)
(*  - buildDependencyGraph: asynchronous builds that interleave at their   *)
(*    awaits with each other, with buildReverseDependencyGraph and with    *)
(*    clearDependencyCache, around the module-level dependencyCache.       *)
(*                                                                         *)
(* Text is modelled by TLA+ strings (Len, \o and SubSeq act on them), JS   *)
(* numbers of the scorer by binary floating point with a Precision-bit     *)
(* significand and round-to-nearest-even.                                  *)
(***************************************************************************)
EXTENDS Integers, Sequences, FiniteSets, TLC

VARIABLES
    \* ---- buildSemanticGraph ----
    fileSummaries,   \* the input Map, as a sequence of [path, summary] in key order
    gpc,             \* position in buildSemanticGraph
    gk,              \* index of the file the TF / TF-IDF loops are at
    tfMaps,          \* path -> term frequencies (sequence of [term, n], insertion order)
    dfMap,           \* term -> number of documents that contain it
    tfidfVectors,    \* path -> TF-IDF vector (sequence of [term, w], insertion order)
    gi, gj,          \* indices of the pair loop
    semanticGraph,   \* path -> sequence of [relatedPath, score]
    \* ---- intelligentlySummarizeFileContent ----
    fileContent,     \* the file text
    fileLines,       \* fileContent.split("\n")
    documentSymbols, \* sequence of DocumentSymbol records (empty when undefined)
    activeSymbolDetailedInfo, \* <<info>>, or <<>> when undefined
    maxAllowedLength,
    spc,             \* position in intelligentlySummarizeFileContent
    currentLength,
    collectedParts,  \* sequence of [content, startLine]
    includedRanges,  \* sequence of ranges
    candidates,      \* the sorted candidate list
    ci,              \* index of the next candidate
    currentLine,     \* line the fallback pass is at
    result,          \* the returned string, once spc = "done"
    offered,         \* history: one record per addContentBlock call
    \* ---- a call of one helper of codeAnalysisUtils ----
    utilContent,     \* the fullContent argument
    utilSymbol,      \* the symbol argument
    utilRange,       \* the range argument
    upc,             \* position of the call
    utilCallee,      \* the helper that is called
    utilResult,      \* what the call gave: a Returned, Null or Thrown record
    \* ---- the dependency graph builder ----
    dependencyCache, \* workspacePath -> DependencyCache record
    now,             \* what Date.now() gives
    builds,          \* per caller: the call it makes and the locals of its running build
    graphsMade,      \* number of graph objects the builds have created so far
    clearedDuring    \* history: the builds that were in progress when their workspace was cleared

gvars == <<fileSummaries, gpc, gk, tfMaps, dfMap, tfidfVectors, gi, gj, semanticGraph>>
svars == <<fileContent, fileLines, documentSymbols, activeSymbolDetailedInfo, maxAllowedLength,
           spc, currentLength, collectedParts, includedRanges, candidates, ci,
           currentLine, result, offered>>
uvars == <<utilContent, utilSymbol, utilRange, upc, utilCallee, utilResult>>
dvars == <<dependencyCache, now, builds, graphsMade, clearedDuring>>
vars == <<gvars, svars, uvars, dvars>>

Undefined == "undefined"

Min(a, b) == IF a < b THEN a ELSE b
Max(a, b) == IF a > b THEN a ELSE b

(***************************************************************************)
(* JavaScript strings                                                      *)
(***************************************************************************)

\* s.charAt(i), 0-based
CharAt(s, i) == SubSeq(s, i + 1, i + 1)

Clamp(n, len) == IF n < 0 THEN 0 ELSE IF n > len THEN len ELSE n

\* s.substring(a, b): both indices clamped to [0, length], swapped when a > b
Substring(s, a, b) ==
    LET ca == Clamp(a, Len(s))
        cb == Clamp(b, Len(s))
    IN  SubSeq(s, Min(ca, cb) + 1, Max(ca, cb))

\* s.substring(a)
SubstringFrom(s, a) == Substring(s, a, Len(s))

IsWhitespace(c) == c \in {" ", "\t", "\n", "\r"}

RECURSIVE TrimStart(_)
TrimStart(s) ==
    IF Len(s) > 0 /\ IsWhitespace(CharAt(s, 0)) THEN TrimStart(SubSeq(s, 2, Len(s))) ELSE s

RECURSIVE TrimEnd(_)
TrimEnd(s) ==
    IF Len(s) > 0 /\ IsWhitespace(CharAt(s, Len(s) - 1))
    THEN TrimEnd(SubSeq(s, 1, Len(s) - 1)) ELSE s

\* s.trim()
Trim(s) == TrimEnd(TrimStart(s))

\* s.startsWith(p)
StartsWith(s, p) == Len(s) >= Len(p) /\ SubSeq(s, 1, Len(p)) = p

\* s.endsWith(p)
EndsWith(s, p) == Len(s) >= Len(p) /\ SubSeq(s, Len(s) - Len(p) + 1, Len(s)) = p

\* s.indexOf(p, from): 0-based index of the first occurrence at or after from, or -1
RECURSIVE IndexOf(_, _, _)
IndexOf(s, p, from) ==
    LET f == Clamp(from, Len(s))
    IN  IF f + Len(p) > Len(s) THEN -1
        ELSE IF SubSeq(s, f + 1, f + Len(p)) = p THEN f
        ELSE IndexOf(s, p, f + 1)

\* s.includes(p)
Includes(s, p) == IndexOf(s, p, 0) # -1

\* s.split("\n"): always at least one element
RECURSIVE SplitLines(_)
SplitLines(s) ==
    LET i == IndexOf(s, "\n", 0)
    IN  IF i = -1 THEN <<s>>
        ELSE <<SubSeq(s, 1, i)>> \o SplitLines(SubSeq(s, i + 2, Len(s)))

\* parts.join(sep)
RECURSIVE Join(_, _)
Join(parts, sep) ==
    IF Len(parts) = 0 THEN ""
    ELSE IF Len(parts) = 1 THEN parts[1]
    ELSE parts[1] \o sep \o Join(Tail(parts), sep)

UpperCaseLetters == "ABCDEFGHIJKLMNOPQRSTUVWXYZ"
LowerCaseLetters == "abcdefghijklmnopqrstuvwxyz"
Digits == "0123456789"

\* c.toLowerCase() of one character
LowerChar(c) ==
    LET i == IndexOf(UpperCaseLetters, c, 0)
    IN  IF i = -1 THEN c ELSE CharAt(LowerCaseLetters, i)

\* s.toLowerCase()
RECURSIVE ToLowerCase(_)
ToLowerCase(s) ==
    IF Len(s) = 0 THEN "" ELSE LowerChar(CharAt(s, 0)) \o ToLowerCase(SubSeq(s, 2, Len(s)))

\* \w of a regular expression
IsWordChar(c) ==
    Len(c) = 1 /\ (Includes(UpperCaseLetters, c) \/ Includes(LowerCaseLetters, c)
                   \/ Includes(Digits, c) \/ c = "_")

(***************************************************************************)
(* JavaScript numbers of the scorer: non-negative binary floating point.   *)
(* A number is [m, e] and stands for m * 2^e; m = 0 is zero, otherwise     *)
(* 2^(Precision-1) <= m < 2^Precision. Every operation rounds its exact    *)
(* result to nearest, ties to even, as IEEE 754 arithmetic does.           *)
(***************************************************************************)

Precision == 13

RECURSIVE Pow2(_)
Pow2(n) == IF n <= 0 THEN 1 ELSE 2 * Pow2(n - 1)

RECURSIVE BitLength(_)
BitLength(m) == IF m = 0 THEN 0 ELSE 1 + BitLength(m \div 2)

FZero == [m |-> 0, e |-> 0]

\* the float nearest to m * 2^e (m a non-negative integer)
Round(m, e) ==
    IF m = 0 THEN FZero
    ELSE LET k == BitLength(m) - Precision
         IN  IF k <= 0 THEN [m |-> m * Pow2(-k), e |-> e + k]
             ELSE LET q    == m \div Pow2(k)
                      r    == m % Pow2(k)
                      half == Pow2(k - 1)
                      up   == r > half \/ (r = half /\ q % 2 = 1)
                      q2   == IF up THEN q + 1 ELSE q
                  IN  IF q2 = Pow2(Precision)
                      THEN [m |-> q2 \div 2, e |-> e + k + 1]
                      ELSE [m |-> q2, e |-> e + k]

FromInt(n) == Round(n, 0)

FOne == FromInt(1)

\* a * b
FMul(a, b) == Round(a.m * b.m, a.e + b.e)

\* a + b
FAdd(a, b) ==
    IF a.m = 0 THEN b
    ELSE IF b.m = 0 THEN a
    ELSE LET hi == IF a.e >= b.e THEN a ELSE b
             lo == IF a.e >= b.e THEN b ELSE a
             d  == hi.e - lo.e
         IN  IF d > Precision + 2 THEN hi
             ELSE Round(hi.m * Pow2(d) + lo.m, lo.e)

\* a / b, b # 0: the quotient to Precision + 2 bits and a sticky bit, rounded
FDiv(a, b) ==
    IF a.m = 0 THEN FZero
    ELSE LET n == a.m * Pow2(Precision + 2)
             q == n \div b.m
             s == IF n % b.m = 0 THEN 0 ELSE 1
         IN  Round(2 * q + s, a.e - b.e - (Precision + 2) - 1)

\* floor of the square root of x, bit by bit from the top
RECURSIVE IsqrtFrom(_, _, _)
IsqrtFrom(x, r, bit) ==
    IF bit < 0 THEN r
    ELSE LET t == r + Pow2(bit)
         IN  IsqrtFrom(x, IF t * t <= x THEN t ELSE r, bit - 1)

Isqrt(x) == IsqrtFrom(x, 0, Precision)

\* Math.sqrt(a): the root to Precision + 1 bits and a sticky bit, rounded
FSqrt(a) ==
    IF a.m = 0 THEN FZero
    ELSE LET t == IF (a.e - (Precision + 1)) % 2 = 0 THEN Precision + 1 ELSE Precision + 2
             x == a.m * Pow2(t)
             r == Isqrt(x)
             s == IF r * r = x THEN 0 ELSE 1
         IN  Round(2 * r + s, ((a.e - t) \div 2) - 1)

\* a > b
FGt(a, b) ==
    IF a.m = 0 THEN FALSE
    ELSE IF b.m = 0 THEN TRUE
    ELSE a.e > b.e \/ (a.e = b.e /\ a.m > b.m)

\* Math.log(totalDocs / df) in units of 2^-20, at the quotients of a corpus
\* of at most six documents
LogTable ==
    [q \in {<<n, d>> : n \in 1..6, d \in 1..6} |->
        CASE q[1] = q[2] -> 0
          [] q \in {<<2, 1>>, <<4, 2>>, <<6, 3>>} -> 726817
          [] q \in {<<3, 1>>, <<6, 2>>} -> 1151978
          [] q \in {<<3, 2>>, <<6, 4>>} -> 425161
          [] q = <<4, 1>> -> 1453635
          [] q = <<4, 3>> -> 301657
          [] q = <<5, 1>> -> 1687618
          [] q = <<5, 2>> -> 960800
          [] q = <<5, 3>> -> 535639
          [] q = <<5, 4>> -> 233983
          [] q = <<6, 1>> -> 1878796
          [] q = <<6, 5>> -> 191178
          [] OTHER -> 0]

\* Math.log(totalDocs / df), totalDocs >= df >= 1
FLog(totalDocs, df) == Round(LogTable[<<totalDocs, df>>], -20)

\* the literal 0.01
FThreshold == FDiv(FromInt(1), FromInt(100))

(***************************************************************************)
(* JavaScript Map: a sequence of [k, v] entries in insertion order         *)
(***************************************************************************)

MapKeys(map) == [i \in 1..Len(map) |-> map[i].k]

MapHas(map, key) == \E i \in 1..Len(map) : map[i].k = key

\* map.get(key), Undefined when absent
MapGet(map, key) ==
    IF MapHas(map, key)
    THEN map[CHOOSE i \in 1..Len(map) : map[i].k = key].v
    ELSE Undefined

\* map.set(key, value): replaces in place, or appends a new entry
MapSet(map, key, value) ==
    IF MapHas(map, key)
    THEN [i \in 1..Len(map) |-> IF map[i].k = key THEN [k |-> key, v |-> value] ELSE map[i]]
    ELSE Append(map, [k |-> key, v |-> value])

\* map.get(key) || dflt
MapGetOr(map, key, dflt) == IF MapHas(map, key) THEN MapGet(map, key) ELSE dflt

(***************************************************************************)
(* buildSemanticGraph                                                      *)
(***************************************************************************)

STOP_WORDS == {
    "a", "about", "above", "after", "again", "against", "all", "am", "an",
    "and", "any", "are", "aren't", "as", "at", "be", "because", "been",
    "before", "being", "below", "between", "both", "but", "by", "can't",
    "cannot", "could", "couldn't", "did", "didn't", "do", "does", "doesn't",
    "doing", "don't", "down", "during", "each", "few", "for", "from",
    "further", "had", "hadn't", "has", "hasn't", "have", "haven't", "having",
    "he", "he'd", "he'll", "he's", "her", "here", "here's", "hers",
    "herself", "him", "himself", "his", "how", "how's", "i", "i'd", "i'll",
    "i'm", "i've", "if", "in", "into", "is", "isn't", "it", "it's", "its",
    "itself", "let's", "me", "more", "most", "mustn't", "my", "myself", "no",
    "nor", "not", "of", "off", "on", "once", "only", "or", "other", "ought",
    "our", "ours", "ourselves", "out", "over", "own", "same", "shan't",
    "she", "she'd", "she'll", "she's", "should", "shouldn't", "so", "some",
    "such", "than", "that", "that's", "the", "their", "theirs", "them",
    "themselves", "then", "there", "there's", "these", "they", "they'd",
    "they'll", "they're", "they've", "this", "those", "through", "to", "too",
    "under", "until", "up", "very", "was", "wasn't", "we", "we'd", "we'll",
    "we're", "we've", "were", "weren't", "what", "what's", "when", "when's",
    "where", "where's", "which", "while", "who", "who's", "whom", "why",
    "why's", "with", "won't", "would", "wouldn't", "you", "you'd", "you'll",
    "you're", "you've", "your", "yours", "yourself", "yourselves", "file",
    "code", "function", "class", "method", "variable", "parameter", "return",
    "import", "export", "const", "let", "var", "interface", "type", "public",
    "private", "protected", "static", "async", "await", "new", "this",
    "super", "extends", "implements", "from", "module" }

\* summary.match(/\b\w+\b/g) || []: the maximal runs of word characters
RECURSIVE MatchWords(_, _, _)
MatchWords(s, i, word) ==
    IF i >= Len(s) THEN (IF word = "" THEN <<>> ELSE <<word>>)
    ELSE IF IsWordChar(CharAt(s, i)) THEN MatchWords(s, i + 1, word \o CharAt(s, i))
    ELSE (IF word = "" THEN <<>> ELSE <<word>>) \o MatchWords(s, i + 1, "")

Tokens(summary) ==
    LET ws == MatchWords(summary, 0, "")
    IN  [i \in 1..Len(ws) |-> ToLowerCase(ws[i])]

\* a filter that keeps every token
KeepsEveryToken(token) == TRUE

\* a token counts unless it is a stop word or a single character
Survives(token) == token \notin STOP_WORDS /\ Len(token) > 1

\* the termFrequencies Map of one summary
RECURSIVE CountTerms(_, _)
CountTerms(tokens, tf) ==
    IF Len(tokens) = 0 THEN tf
    ELSE LET token == Head(tokens)
         IN  CountTerms(Tail(tokens),
                        IF Survives(token)
                        THEN MapSet(tf, token, MapGetOr(tf, token, 0) + 1)
                        ELSE tf)

TermFrequencies(summary) == CountTerms(Tokens(summary), <<>>)

\* dfMap after one more document with these term frequencies
RECURSIVE CountDocument(_, _)
CountDocument(terms, df) ==
    IF Len(terms) = 0 THEN df
    ELSE CountDocument(Tail(terms), MapSet(df, Head(terms), MapGetOr(df, Head(terms), 0) + 1))

\* a weighting by the term frequency alone
TermFrequencyOnly(tf, term, df, totalDocs) == FromInt(tf)

\* tf * Math.log(totalDocs / df), df = dfMap.get(term) || 1
TfIdf(tf, term, df, totalDocs) ==
    FMul(FromInt(tf), FLog(totalDocs, MapGetOr(df, term, 1)))

\* the TF-IDF vector of one document
TfidfVector(termFrequencies, df, totalDocs) ==
    [i \in 1..Len(termFrequencies) |->
        [k |-> termFrequencies[i].k,
         v |-> TfIdf(termFrequencies[i].v, termFrequencies[i].k, df, totalDocs)]]

\* new Set([...termsA, ...termsB]): A's keys, then B's keys that A lacks
AllTerms(vectorA, vectorB) ==
    MapKeys(vectorA) \o SelectSeq(MapKeys(vectorB), LAMBDA t : ~MapHas(vectorA, t))

\* the three running sums after the loop over allTerms
RECURSIVE CosineSums(_, _, _, _)
CosineSums(terms, vectorA, vectorB, acc) ==
    IF Len(terms) = 0 THEN acc
    ELSE LET scoreA == MapGetOr(vectorA, Head(terms), FZero)
             scoreB == MapGetOr(vectorB, Head(terms), FZero)
         IN  CosineSums(Tail(terms), vectorA, vectorB,
                 [dotProduct |-> FAdd(acc.dotProduct, FMul(scoreA, scoreB)),
                  magnitudeA |-> FAdd(acc.magnitudeA, FMul(scoreA, scoreA)),
                  magnitudeB |-> FAdd(acc.magnitudeB, FMul(scoreB, scoreB))])

\* a quotient that leaves the square roots out: dotProduct / (magnitudeA * magnitudeB)
QuotientWithoutRoots(sums) ==
    FDiv(sums.dotProduct, FMul(sums.magnitudeA, sums.magnitudeB))

\* dotProduct / (Math.sqrt(magnitudeA) * Math.sqrt(magnitudeB))
CosineQuotient(sums) ==
    FDiv(sums.dotProduct, FMul(FSqrt(sums.magnitudeA), FSqrt(sums.magnitudeB)))

calculateCosineSimilarity(vectorA, vectorB) ==
    LET sums == CosineSums(AllTerms(vectorA, vectorB), vectorA, vectorB,
                           [dotProduct |-> FZero, magnitudeA |-> FZero, magnitudeB |-> FZero])
    IN  IF sums.magnitudeA = FZero \/ sums.magnitudeB = FZero THEN FZero
        ELSE CosineQuotient(sums)

\* graph.get(from).push({relatedPath: to, score}), creating the list when absent
PushLink(graph, from, to, score) ==
    MapSet(graph, from,
           Append(MapGetOr(graph, from, <<>>), [relatedPath |-> to, score |-> score]))

\* a builder that records the link on pathA's side only
LinkOneWay(graph, pathA, pathB, similarity) == PushLink(graph, pathA, pathB, similarity)

\* both pushes of one pair above the threshold
LinkPair(graph, pathA, pathB, similarity) ==
    PushLink(PushLink(graph, pathA, pathB, similarity), pathB, pathA, similarity)

\* similarity > 0.01
AboveThreshold(similarity) == FGt(similarity, FThreshold)

\* the list as the pair loop left it
InsertionOrder(links) == links

\* links.sort((a, b) => b.score - a.score): stable, by descending score
RECURSIVE InsertLink(_, _)
InsertLink(sorted, x) ==
    IF Len(sorted) = 0 THEN <<x>>
    ELSE IF FGt(x.score, Head(sorted).score) THEN <<x>> \o sorted
    ELSE <<Head(sorted)>> \o InsertLink(Tail(sorted), x)

RECURSIVE SortLinks(_)
SortLinks(links) ==
    IF Len(links) = 0 THEN <<>>
    ELSE InsertLink(SortLinks(SubSeq(links, 1, Len(links) - 1)), links[Len(links)])

\* ---- inputs ----
MaxDocs == 3

Paths == <<"a.ts", "b.ts", "c.ts", "d.ts", "e.ts">>

Summaries ==
    {"", "the x", "auth login", "Login auth auth", "auth ui", "ui db"}

Corpora ==
    UNION {{[i \in 1..n |-> [path |-> Paths[i], summary |-> f[i]]] :
              f \in [1..n -> Summaries]} : n \in 0..MaxDocs}

filePaths == [i \in 1..Len(fileSummaries) |-> fileSummaries[i].path]
totalDocs == Len(fileSummaries)

GraphIdle ==
    /\ fileSummaries = <<>> /\ gpc = "idle" /\ gk = 0 /\ tfMaps = <<>> /\ dfMap = <<>>
    /\ tfidfVectors = <<>> /\ gi = 0 /\ gj = 0 /\ semanticGraph = <<>>

GraphInit ==
    /\ fileSummaries \in Corpora
    /\ gpc = "start" /\ gk = 0 /\ tfMaps = <<>> /\ dfMap = <<>>
    /\ tfidfVectors = <<>> /\ gi = 0 /\ gj = 0 /\ semanticGraph = <<>>

\* a builder that opens with an empty link list for every file of the corpus
GraphStartWithKeys ==
    /\ gpc = "start"
    /\ semanticGraph' = [i \in 1..Len(filePaths) |-> [k |-> filePaths[i], v |-> <<>>]]
    /\ IF Len(filePaths) < 2
       THEN gpc' = "done" /\ gk' = gk
       ELSE gpc' = "tf" /\ gk' = 1
    /\ UNCHANGED <<svars, uvars, dvars, fileSummaries, tfMaps, dfMap, tfidfVectors, gi, gj>>

\* lines 263-270: fewer than two documents give the empty graph
GraphStart ==
    /\ gpc = "start"
    /\ IF Len(filePaths) < 2
       THEN gpc' = "done" /\ gk' = gk
       ELSE gpc' = "tf" /\ gk' = 1
    /\ UNCHANGED <<svars, uvars, dvars, fileSummaries, tfMaps, dfMap, tfidfVectors, gi, gj,
                   semanticGraph>>

\* lines 273-291: one iteration of the TF / DF loop
GraphTermFrequencies ==
    /\ gpc = "tf"
    /\ LET termFrequencies == TermFrequencies(fileSummaries[gk].summary)
       IN  /\ tfMaps' = MapSet(tfMaps, filePaths[gk], termFrequencies)
           /\ dfMap' = CountDocument(MapKeys(termFrequencies), dfMap)
    /\ IF gk = totalDocs THEN gpc' = "tfidf" /\ gk' = 1 ELSE gpc' = gpc /\ gk' = gk + 1
    /\ UNCHANGED <<svars, uvars, dvars, fileSummaries, tfidfVectors, gi, gj, semanticGraph>>

\* lines 295-309: one iteration of the TF-IDF loop
GraphTfidf ==
    /\ gpc = "tfidf"
    /\ tfidfVectors' = MapSet(tfidfVectors, filePaths[gk],
                              TfidfVector(MapGet(tfMaps, filePaths[gk]), dfMap, totalDocs))
    /\ IF gk = totalDocs
       THEN gpc' = "pairs" /\ gk' = gk /\ gi' = 1 /\ gj' = 2
       ELSE gpc' = gpc /\ gk' = gk + 1 /\ UNCHANGED <<gi, gj>>
    /\ UNCHANGED <<svars, uvars, dvars, fileSummaries, tfMaps, dfMap, semanticGraph>>

\* lines 313-344: one iteration of the pair loop (i < j)
GraphPair ==
    /\ gpc = "pairs"
    /\ LET pathA == filePaths[gi]
           pathB == filePaths[gj]
           similarity == calculateCosineSimilarity(MapGet(tfidfVectors, pathA),
                                                   MapGet(tfidfVectors, pathB))
       IN  semanticGraph' = IF AboveThreshold(similarity)
                            THEN LinkPair(semanticGraph, pathA, pathB, similarity)
                            ELSE semanticGraph
    /\ IF gj < totalDocs THEN gi' = gi /\ gj' = gj + 1 /\ gpc' = gpc
       ELSE IF gi + 1 < totalDocs THEN gi' = gi + 1 /\ gj' = gi + 2 /\ gpc' = gpc
       ELSE gi' = gi /\ gj' = gj /\ gpc' = "sort"
    /\ UNCHANGED <<svars, uvars, dvars, fileSummaries, gk, tfMaps, dfMap, tfidfVectors>>

\* lines 347-351: sort every list and return
GraphSort ==
    /\ gpc = "sort"
    /\ semanticGraph' = [i \in 1..Len(semanticGraph) |->
                            [k |-> semanticGraph[i].k, v |-> SortLinks(semanticGraph[i].v)]]
    /\ gpc' = "done"
    /\ UNCHANGED <<svars, uvars, dvars, fileSummaries, gk, tfMaps, dfMap, tfidfVectors, gi, gj>>

GraphNext == GraphStart \/ GraphTermFrequencies \/ GraphTfidf \/ GraphPair \/ GraphSort

(***************************************************************************)
(* vscode.Position and vscode.Range, as the code uses them                 *)
(***************************************************************************)

\* what a call gives: a value, null, or a TypeError thrown on reading a property
\* of undefined (a line the file does not have)
Returned(v) == [outcome |-> "returned", value |-> v]
Null == [outcome |-> "null", value |-> <<>>]
Thrown == [outcome |-> "threw", value |-> <<>>]

Position(line, character) == [line |-> line, character |-> character]

\* a.isBeforeOrEqual(b)
IsBeforeOrEqual(a, b) == a.line < b.line \/ (a.line = b.line /\ a.character <= b.character)

\* new vscode.Range(start, end): the two positions in order
RangeOf(a, b) ==
    IF IsBeforeOrEqual(a, b) THEN [start |-> a, end |-> b] ELSE [start |-> b, end |-> a]

\* new vscode.Range(startLine, startCharacter, endLine, endCharacter)
Range(sl, sc, el, ec) == RangeOf(Position(sl, sc), Position(el, ec))

\* range.contains(position)
Contains(range, pos) == IsBeforeOrEqual(range.start, pos) /\ IsBeforeOrEqual(pos, range.end)

\* range.isEmpty
IsEmpty(range) == range.start = range.end

\* a.intersection(b): undefined (Null here) when the ranges have no position in common
Intersection(a, b) ==
    LET start == IF IsBeforeOrEqual(a.start, b.start) THEN b.start ELSE a.start
        end   == IF IsBeforeOrEqual(a.end, b.end) THEN a.end ELSE b.end
    IN  IF IsBeforeOrEqual(start, end) THEN Returned([start |-> start, end |-> end]) ELSE Null

\* end.line - start.line + 1
LineCount(range) == range.end.line - range.start.line + 1

(***************************************************************************)
(* src/utils/codeAnalysisUtils.ts                                          *)
(***************************************************************************)

\* whether lines[i] of the (0-based) JS array is defined
HasLine(lines, i) == i >= 0 /\ i < Len(lines)

\* lines[i], for a line the array has
LineAt(lines, i) == lines[i + 1]

\* a line of the range taken whole
WholeLine(line, range, i) == line

\* one line of extractContentForRange, cut at the columns of the range
ContentLine(line, range, i) ==
    IF i = range.start.line /\ i = range.end.line
    THEN Substring(line, range.start.character, range.end.character)
    ELSE IF i = range.start.line
    THEN SubstringFrom(line, range.start.character)
    ELSE IF i = range.end.line
    THEN Substring(line, 0, range.end.character)
    ELSE line

\* the loop of extractContentForRange: the lines startLine..endLine, cut at the columns
RECURSIVE ContentLines(_, _, _)
ContentLines(lines, range, i) ==
    IF i > range.end.line THEN <<>>
    ELSE <<ContentLine(LineAt(lines, i), range, i)>> \o ContentLines(lines, range, i + 1)

\* extractContentForRange once the content is split into lines
ContentOfLines(lines, range) ==
    IF range.start.line < 0 \/ range.end.line >= Len(lines)
       \/ range.start.line > range.end.line
    THEN ""
    ELSE Join(ContentLines(lines, range, range.start.line), "\n")

extractContentForRange(fullContent, range) == ContentOfLines(SplitLines(fullContent), range)

BlockKinds == {"Class", "Function", "Method", "Constructor", "Module", "Namespace", "Enum"}

\* vscode.SymbolKind value 25, which the code calls TypeAlias
TypeAliasKind == "TypeParameter"

\* the loop of getDeclarationRange that searches the opening brace from line i on:
\* the range up to the brace, null when the symbol's lines hold none, a TypeError
\* when a line of the symbol is beyond the file
RECURSIVE BraceSearch(_, _, _)
\* a declaration range that takes the brace in
ThroughTheBrace(lines, symbol, i, braceIndex) ==
    IF braceIndex # -1
    THEN Returned(RangeOf(symbol.range.start, Position(i, braceIndex + 1)))
    ELSE BraceSearch(lines, symbol, i + 1)

\* line i of the loop, given the braceIndex found on it
BraceStep(lines, symbol, i, braceIndex) ==
    IF braceIndex # -1 THEN Returned(RangeOf(symbol.range.start, Position(i, braceIndex)))
    ELSE BraceSearch(lines, symbol, i + 1)

BraceSearch(lines, symbol, i) ==
    IF i > symbol.range.end.line THEN Null
    ELSE IF ~HasLine(lines, i) THEN Thrown
    ELSE BraceStep(lines, symbol, i,
                   IndexOf(LineAt(lines, i), "{",
                           IF i = symbol.range.start.line
                           THEN symbol.range.start.character ELSE 0))

\* the fallback of getDeclarationRange when the brace search gave found
DeclarationRangeOr(found, symbol) ==
    IF found.outcome # "null" THEN found
    ELSE IF symbol.kind = "Interface" \/ symbol.kind = TypeAliasKind
            \/ symbol.kind \in BlockKinds
    THEN Returned(symbol.selectionRange)
    ELSE Returned(symbol.range)

getDeclarationRange(fullContent, symbol) ==
    DeclarationRangeOr(IF symbol.kind \in BlockKinds
                       THEN BraceSearch(SplitLines(fullContent), symbol,
                                        symbol.range.start.line)
                       ELSE Null,
                       symbol)

\* trimmed starts with //, /* or *
IsCommentShaped(trimmed) ==
    StartsWith(trimmed, "//") \/ StartsWith(trimmed, "/*") \/ StartsWith(trimmed, "*")

\* step 1 of getDocumentationRange: the nearest non-blank line at or above
\* line current (-1 when there is none); a TypeError when current is beyond the file
RECURSIVE SkipBlankLinesUp(_, _)
SkipBlankLinesUp(lines, current) ==
    IF current < 0 THEN Returned(current)
    ELSE IF ~HasLine(lines, current) THEN Thrown
    ELSE IF Trim(LineAt(lines, current)) = "" THEN SkipBlankLinesUp(lines, current - 1)
    ELSE Returned(current)

\* whether the backward loop breaks at comment line i: a // line below a line of code
BreaksAtLineComment(trimmed, prevTrimmed, i) ==
    /\ StartsWith(trimmed, "//") /\ i > 0
    /\ prevTrimmed # "" /\ ~IsCommentShaped(prevTrimmed)

\* what line i, trimmed, does to the backward loop: "blank", "code", "stop"
\* (a comment line the loop ends on) or "comment"
DocLineClass(lines, trimmed, i) ==
    IF trimmed = "" THEN "blank"
    ELSE IF ~IsCommentShaped(trimmed) THEN "code"
    ELSE IF BreaksAtLineComment(trimmed,
                                IF i > 0 THEN Trim(LineAt(lines, i - 1)) ELSE "", i)
    THEN "stop"
    ELSE IF i = 0 THEN "stop"
    ELSE "comment"

\* one step of the backward loop, given the class of line i
RECURSIVE DocStartLine(_, _, _)
DocStartStep(lines, i, startDocLine, class) ==
    IF class = "blank"
    THEN (IF startDocLine # -1 THEN DocStartLine(lines, i - 1, startDocLine)
          ELSE startDocLine)
    ELSE IF class = "stop" THEN i
    ELSE IF class = "comment" THEN DocStartLine(lines, i - 1, i)
    ELSE i + 1

\* step 2 of getDocumentationRange: startDocLine when the backward loop ends
DocStartLine(lines, i, startDocLine) ==
    IF i < 0 THEN startDocLine
    ELSE DocStartStep(lines, i, startDocLine, DocLineClass(lines, Trim(LineAt(lines, i)), i))

\* a range that keeps the blank lines startDocLine stands on
NoCleanup(lines, finalStartLine, endDocLine) == finalStartLine

\* the final cleanup of getDocumentationRange
RECURSIVE SkipBlankLinesDown(_, _, _)
SkipBlankLinesDown(lines, finalStartLine, endDocLine) ==
    IF finalStartLine < endDocLine /\ Trim(LineAt(lines, finalStartLine)) = ""
    THEN SkipBlankLinesDown(lines, finalStartLine + 1, endDocLine)
    ELSE finalStartLine

\* the range returned for finalStartLine..endDocLine
DocRangeFrom(lines, finalStartLine, endDocLine) ==
    IF finalStartLine > endDocLine THEN Null
    ELSE Returned(Range(finalStartLine, 0, endDocLine, Len(LineAt(lines, endDocLine))))

\* the tests on startDocLine and the cleanup
DocRangeBetween(lines, startDocLine, endDocLine) ==
    IF startDocLine = -1 \/ startDocLine > endDocLine THEN Null
    ELSE DocRangeFrom(lines, SkipBlankLinesDown(lines, startDocLine, endDocLine), endDocLine)

\* steps 2 and 3, given what step 1 found
DocRangeAbove(lines, found) ==
    IF found.outcome = "threw" THEN Thrown
    ELSE IF found.value < 0 THEN Null
    ELSE DocRangeBetween(lines, DocStartLine(lines, found.value, -1), found.value)

\* getDocumentationRange once the content is split into lines
DocRangeInLines(lines, symbol) ==
    DocRangeAbove(lines, SkipBlankLinesUp(lines, symbol.range.start.line - 1))

getDocumentationRange(fullContent, symbol) ==
    DocRangeInLines(SplitLines(fullContent), symbol)

\* s.replace(/\s+/g, " ")
RECURSIVE CollapseWhitespace(_, _)
CollapseWhitespace(s, inRun) ==
    IF Len(s) = 0 THEN ""
    ELSE IF IsWhitespace(CharAt(s, 0))
    THEN (IF inRun THEN "" ELSE " ") \o CollapseWhitespace(SubSeq(s, 2, Len(s)), TRUE)
    ELSE CharAt(s, 0) \o CollapseWhitespace(SubSeq(s, 2, Len(s)), FALSE)

StructureChildKinds == {"Property", "Method", "Field", "Event"}

\* the entry of one child in the childrenList
ChildEntry(child, childContent) ==
    "  - " \o CollapseWhitespace(Trim(SplitLines(childContent)[1]), FALSE)
    \o (IF child.detail # "" THEN " (" \o child.detail \o ")" ELSE "")

\* the entry of child put before those of the children after it
ChildAndRest(child, childDeclarationRange, rest, fullContent) ==
    IF childDeclarationRange.outcome = "threw" \/ rest.outcome = "threw" THEN Thrown
    ELSE Returned(<<ChildEntry(child, extractContentForRange(fullContent,
                                                             childDeclarationRange.value))>>
                  \o rest.value)

\* the childrenList of formatSymbolStructure
RECURSIVE ChildrenList(_, _)
ChildrenList(children, fullContent) ==
    IF Len(children) = 0 THEN Returned(<<>>)
    ELSE IF Head(children).kind \notin StructureChildKinds
    THEN ChildrenList(Tail(children), fullContent)
    ELSE ChildAndRest(Head(children), getDeclarationRange(fullContent, Head(children)),
                      ChildrenList(Tail(children), fullContent), fullContent)

\* structure: the declaration without its trailing brace
StripTrailingBrace(extracted) ==
    IF EndsWith(extracted, "{") THEN Trim(SubSeq(extracted, 1, Len(extracted) - 1))
    ELSE extracted

\* the lines of the structured text
StructureLines(symbol, structure, childrenList) ==
    <<"// " \o symbol.kind \o ": " \o symbol.name, structure>>
    \o (IF Len(childrenList) > 0 THEN <<"{">> \o childrenList \o <<"}">> ELSE <<>>)

\* formatSymbolStructure of an interface or type alias, given its declaration
\* range and its childrenList
StructureOf(symbol, fullContent, declarationRange, childrenList) ==
    IF declarationRange.outcome = "threw" \/ childrenList.outcome = "threw" THEN Thrown
    ELSE Returned(Join(StructureLines(
                           symbol,
                           StripTrailingBrace(
                               Trim(extractContentForRange(fullContent,
                                                           declarationRange.value))),
                           childrenList.value),
                       "\n"))

formatSymbolStructure(symbol, fullContent) ==
    IF symbol.kind # "Interface" /\ symbol.kind # TypeAliasKind THEN Null
    ELSE StructureOf(symbol, fullContent, getDeclarationRange(fullContent, symbol),
                     ChildrenList(symbol.children, fullContent))
(***************************************************************************)
(* intelligentlySummarizeFileContent                                       *)
(***************************************************************************)

MAJOR_SYMBOL_KINDS ==
    {"Class", "Function", "Method", "Interface", "Enum", "Namespace", "Constructor",
     "Module", "Variable", "Constant", "TypeParameter", "Property", "Field"}

EXPORTED_SYMBOL_KINDS == {"Class", "Function", "Interface", "Enum", "Variable", "Constant"}

MARKERS ==
    [DOC |-> "DOC", STRUCT |-> "STRUCT", SIGNATURE |-> "SIGNATURE",
     ACTIVE_SYMBOL |-> "ACTIVE_SYMBOL", IMPORTS |-> "IMPORTS", PREAMBLE |-> "PREAMBLE",
     CONTEXT |-> "CONTEXT", END_SECTION |-> "END_SECTION"]

\* desiredBlockLength of a candidate that gives none
NoLength == -1

\* MAX_REFERENCED_TYPE_CONTENT_CHARS_CONSTANT of services/contextService
MAX_REFERENCED_TYPE_CONTENT_CHARS_CONSTANT == 5000

\* candidateLineCount * 0.7 <= intersectionLineCount, in tenths
CoversSeventyPercent(intersectionLineCount, candidateLineCount) ==
    10 * intersectionLineCount >= 7 * candidateLineCount

\* whether one included range rules the candidate out
OverlapsSubstantially(existingRange, candidateRange) ==
    LET intersection == Intersection(existingRange, candidateRange)
    IN  /\ intersection.outcome = "returned"
        /\ ~IsEmpty(intersection.value)
        /\ CoversSeventyPercent(LineCount(intersection.value), LineCount(candidateRange))

\* a packer without the overlap test
NoOverlapTest(candidateRange) == FALSE

isSubstantiallyOverlapping(candidateRange) ==
    IF LineCount(candidateRange) <= 0 THEN FALSE
    ELSE \E n \in 1..Len(includedRanges) :
            OverlapsSubstantially(includedRanges[n], candidateRange)

HeaderPart(markerType, description) ==
    "// [" \o markerType \o (IF description # "" THEN ": " \o description ELSE "") \o "]\n"

FooterPart(markerType) == "\n// [" \o MARKERS.END_SECTION \o ": " \o markerType \o "]"

TruncationMessage == "\n// ... (section truncated)"

\* contentRaw cut to desiredBlockLength when one is given and exceeded
ContentToUse(contentRaw, desiredBlockLength) ==
    IF desiredBlockLength # NoLength /\ Len(contentRaw) > desiredBlockLength
    THEN Substring(contentRaw, 0, desiredBlockLength)
    ELSE contentRaw

\* a packer that truncates into whatever space is left
AlwaysWorthTruncating(availableContentLength) == TRUE

\* whether what is left after the header and the footer is worth a truncated block
WorthTruncating(availableContentLength) == availableContentLength > 30

\* a packer that frames every block whole
UncutBlock(headerPart, contentToUse, footerPart, remainingSpace) ==
    Returned(headerPart \o contentToUse \o footerPart)

\* lines 490-518 of addContentBlock: the block within remainingSpace, or null when
\* too little space remains
FramedBlock(headerPart, contentToUse, footerPart, remainingSpace) ==
    IF Len(headerPart) + Len(contentToUse) + Len(footerPart) > remainingSpace
    THEN IF WorthTruncating(remainingSpace - Len(headerPart) - Len(footerPart))
         THEN Returned(headerPart
                       \o Substring(contentToUse, 0,
                                    remainingSpace - Len(headerPart) - Len(footerPart)
                                        - Len(TruncationMessage))
                       \o TruncationMessage \o footerPart)
         ELSE Null
    ELSE Returned(headerPart \o contentToUse \o footerPart)

\* lines 480-518 of addContentBlock
FinalBlock(contentRaw, markerType, description, desiredBlockLength) ==
    FramedBlock(HeaderPart(markerType, description),
                ContentToUse(contentRaw, desiredBlockLength),
                FooterPart(markerType),
                maxAllowedLength - currentLength)

\* lines 520-529: an empty finalBlock is not added
NonEmptyBlock(finalBlock) ==
    IF finalBlock.outcome = "returned" /\ Len(finalBlock.value) > 0 THEN finalBlock ELSE Null

\* the block addContentBlock adds for this call, or null when it returns false
BlockToAdd(contentRaw, sourceRange, markerType, description, desiredBlockLength) ==
    IF currentLength >= maxAllowedLength THEN Null
    ELSE IF isSubstantiallyOverlapping(sourceRange) THEN Null
    ELSE NonEmptyBlock(FinalBlock(contentRaw, markerType, description, desiredBlockLength))

\* a packer that enters the range of every candidate it is offered, accepted or not
RecordRangeAlways(block, sourceRange, markerType, frame) ==
    /\ IF block.outcome = "returned"
       THEN /\ collectedParts' = Append(collectedParts,
                                        [content |-> block.value,
                                         startLine |-> sourceRange.start.line])
            /\ currentLength' = currentLength + Len(block.value)
       ELSE UNCHANGED <<collectedParts, currentLength>>
    /\ includedRanges' = Append(includedRanges, sourceRange)
    /\ offered' = Append(offered,
                         [range |-> sourceRange, marker |-> markerType, frame |-> frame,
                          before |-> currentLength,
                          added |-> block.outcome = "returned",
                          content |-> IF block.outcome = "returned" THEN block.value ELSE "",
                          phase |-> spc, ci |-> ci])

\* what a call of addContentBlock that computed block does to the state (offered
\* records the call)
RecordBlock(block, sourceRange, markerType, frame) ==
    /\ IF block.outcome = "returned"
       THEN /\ collectedParts' = Append(collectedParts,
                                        [content |-> block.value,
                                         startLine |-> sourceRange.start.line])
            /\ currentLength' = currentLength + Len(block.value)
            /\ includedRanges' = Append(includedRanges, sourceRange)
       ELSE UNCHANGED <<collectedParts, currentLength, includedRanges>>
    /\ offered' = Append(offered,
                         [range |-> sourceRange, marker |-> markerType, frame |-> frame,
                          before |-> currentLength,
                          added |-> block.outcome = "returned",
                          content |-> IF block.outcome = "returned" THEN block.value ELSE "",
                          phase |-> spc, ci |-> ci])

\* one call of addContentBlock
addContentBlock(contentRaw, sourceRange, markerType, description, desiredBlockLength) ==
    RecordBlock(BlockToAdd(contentRaw, sourceRange, markerType, description,
                           desiredBlockLength),
                sourceRange, markerType,
                Len(HeaderPart(markerType, description)) + Len(FooterPart(markerType)))

\* path.replace(/\\/g, "/")
RECURSIVE NormalizePath(_)
NormalizePath(p) ==
    IF Len(p) = 0 THEN ""
    ELSE (IF CharAt(p, 0) = "\\" THEN "/" ELSE CharAt(p, 0))
         \o NormalizePath(SubSeq(p, 2, Len(p)))

\* location is <<item>> or <<>> (undefined)
isLocationInCurrentFile(location, currentFilePath) ==
    IF Len(location) = 0 \/ currentFilePath = "" THEN FALSE
    ELSE NormalizePath(location[1].uri.fsPath) = NormalizePath(currentFilePath)

Candidate(priority, range, marker, description, contentOverride, desiredBlockLength) ==
    [priority |-> priority, range |-> range, marker |-> marker,
     description |-> description, contentOverride |-> contentOverride,
     desiredBlockLength |-> desiredBlockLength]

\* 1. the active symbol's full definition; priorities are in hundredths
ActiveSymbolCandidates ==
    IF Len(activeSymbolDetailedInfo) = 0 THEN <<>>
    ELSE LET info == activeSymbolDetailedInfo[1]
             kindName == IF info.kind # Undefined THEN info.kind ELSE "Unknown"
         IN  <<Candidate(500, info.fullRange, MARKERS.ACTIVE_SYMBOL,
                         info.name \o " (" \o kindName \o ")", "", NoLength)>>

\* a line of the preamble: a comment, a # line or a blank line
IsPreambleLine(line) ==
    StartsWith(line, "//") \/ StartsWith(line, "/*") \/ StartsWith(line, "*")
        \/ StartsWith(line, "#") \/ line = ""

\* the loop of lines 573-586, from line i on
RECURSIVE PreambleScan(_, _)
PreambleScan(i, preambleEndLine) ==
    IF i >= Min(Len(fileLines), 20) THEN preambleEndLine
    ELSE IF IsPreambleLine(Trim(LineAt(fileLines, i))) THEN PreambleScan(i + 1, i)
    ELSE preambleEndLine

PreambleEndLine == PreambleScan(0, -1)

\* fileLines[i]?.length || 0
LengthOfLine(i) == IF HasLine(fileLines, i) THEN Len(LineAt(fileLines, i)) ELSE 0

\* 2. the file preamble
PreambleCandidates ==
    IF PreambleEndLine >= 0
    THEN <<Candidate(450, Range(0, 0, PreambleEndLine, LengthOfLine(PreambleEndLine)),
                     MARKERS.PREAMBLE, "High-level description", "",
                     (maxAllowedLength * 15) \div 100)>>
    ELSE <<>>

importKeywords == <<"import ", "require(", "from ", "using ", "package ">>

IsImportLike(line) == \E n \in 1..Len(importKeywords) : StartsWith(line, importKeywords[n])

IsCommentOrEmpty(line) == line = "" \/ StartsWith(line, "//") \/ StartsWith(line, "/*")

\* the loop of lines 607-621, from line i on
RECURSIVE ImportScan(_, _, _)
ImportScan(i, importAndSetupEndLine, foundFirstCodeOrImportLine) ==
    IF i >= Len(fileLines) THEN importAndSetupEndLine
    ELSE LET line == Trim(LineAt(fileLines, i))
         IN  IF IsImportLike(line) THEN ImportScan(i + 1, i, TRUE)
             ELSE IF ~IsCommentOrEmpty(line) /\ foundFirstCodeOrImportLine
             THEN importAndSetupEndLine
             ELSE ImportScan(i + 1, importAndSetupEndLine, foundFirstCodeOrImportLine)

ImportAndSetupEndLine == ImportScan(0, -1, FALSE)

\* 3. import statements and module-level setup
ImportCandidates ==
    LET startLineForImports == Max(PreambleEndLine + 1, 0)
    IN  IF ImportAndSetupEndLine >= 0 /\ ImportAndSetupEndLine >= startLineForImports
        THEN <<Candidate(400,
                         Range(startLineForImports, 0, ImportAndSetupEndLine,
                               LengthOfLine(ImportAndSetupEndLine)),
                         MARKERS.IMPORTS, "Module Setup", "", (maxAllowedLength * 2) \div 10)>>
        ELSE <<>>

\* the candidates pushed for one exported symbol, given its documentation range,
\* its structured text and its declaration range
ExportedCandidatesOf(symbol, docRange, structuredContent, declarationRange) ==
    IF \/ docRange.outcome = "threw" \/ structuredContent.outcome = "threw"
       \/ declarationRange.outcome = "threw"
    THEN Thrown
    ELSE Returned(
        (IF docRange.outcome = "returned"
         THEN <<Candidate(390, docRange.value, MARKERS.DOC,
                          "Exported " \o symbol.kind \o " Documentation: " \o symbol.name,
                          "", 512)>>
         ELSE <<>>)
        \o (IF structuredContent.outcome = "returned" /\ structuredContent.value # ""
            THEN <<Candidate(380, symbol.range, MARKERS.STRUCT,
                             "Exported " \o symbol.kind \o " Structure: " \o symbol.name,
                             structuredContent.value, (maxAllowedLength * 15) \div 100)>>
            ELSE <<>>)
        \o <<Candidate(370, declarationRange.value, MARKERS.SIGNATURE,
                       "Exported " \o symbol.kind \o " Signature: " \o symbol.name,
                       "", 1024)>>)

\* the candidates of one exported symbol (lines 650-694), or a TypeError
ExportedSymbolCandidates(symbol) ==
    ExportedCandidatesOf(symbol,
                         getDocumentationRange(fileContent, symbol),
                         IF symbol.kind = "Interface" \/ symbol.kind = "TypeParameter"
                            \/ symbol.kind = TypeAliasKind
                         THEN formatSymbolStructure(symbol, fileContent)
                         ELSE Null,
                         getDeclarationRange(fileContent, symbol))

\* the candidate pushed for one internal symbol, given its declaration range
InternalCandidatesOf(symbol, declarationRange) ==
    IF declarationRange.outcome = "threw" THEN Thrown
    ELSE Returned(<<Candidate(300, declarationRange.value, MARKERS.SIGNATURE,
                              "Internal " \o symbol.kind \o " Signature: " \o symbol.name,
                              "", 2048)>>)

\* the candidates of one internal major symbol (lines 744-758), or a TypeError
InternalSymbolCandidates(symbol) ==
    InternalCandidatesOf(symbol, getDeclarationRange(fileContent, symbol))

\* the candidates of one symbol followed by those of the symbols after it; a
\* TypeError in either ends the call
Pushed(first, rest) ==
    IF first.outcome = "threw" \/ rest.outcome = "threw" THEN Thrown
    ELSE Returned(first.value \o rest.value)

\* forEach over the exported symbols: the candidates in order, or a TypeError
RECURSIVE CollectExported(_)
CollectExported(symbols) ==
    IF Len(symbols) = 0 THEN Returned(<<>>)
    ELSE Pushed(ExportedSymbolCandidates(Head(symbols)), CollectExported(Tail(symbols)))

\* forEach over the internal symbols: the candidates in order, or a TypeError
RECURSIVE CollectInternal(_)
CollectInternal(symbols) ==
    IF Len(symbols) = 0 THEN Returned(<<>>)
    ELSE Pushed(InternalSymbolCandidates(Head(symbols)), CollectInternal(Tail(symbols)))

\* 4. exported major symbols that start after the import block
ExportedCandidates ==
    CollectExported(
        SelectSeq(documentSymbols,
                  LAMBDA symbol : /\ symbol.kind \in EXPORTED_SYMBOL_KINDS
                                  /\ symbol.range.start.line > ImportAndSetupEndLine))

IncomingCallCandidates(info) ==
    LET calls == SelectSeq(info.incomingCalls,
                           LAMBDA call : /\ isLocationInCurrentFile(<<call.from>>,
                                                                    NormalizePath(info.filePath))
                                         /\ Len(call.fromRanges) > 0)
    IN  [n \in 1..Len(calls) |->
            Candidate(325, calls[n].fromRanges[1], MARKERS.CONTEXT,
                      "Call to active symbol from: " \o calls[n].from.name, "",
                      MAX_REFERENCED_TYPE_CONTENT_CHARS_CONSTANT)]

OutgoingCallCandidates(info) ==
    LET calls == SelectSeq(info.outgoingCalls,
                           LAMBDA call : isLocationInCurrentFile(<<call.to>>,
                                                                 NormalizePath(info.filePath)))
    IN  [n \in 1..Len(calls) |->
            Candidate(325, calls[n].to.range, MARKERS.CONTEXT,
                      "Active symbol calls: " \o calls[n].to.name, "",
                      MAX_REFERENCED_TYPE_CONTENT_CHARS_CONSTANT)]

\* 5. call hierarchy details within the current file
CallCandidates ==
    IF Len(activeSymbolDetailedInfo) = 0 THEN <<>>
    ELSE IF activeSymbolDetailedInfo[1].filePath = "" THEN <<>>
    ELSE IncomingCallCandidates(activeSymbolDetailedInfo[1])
         \o OutgoingCallCandidates(activeSymbolDetailedInfo[1])

\* 6. other major symbol definitions
InternalCandidates ==
    CollectInternal(
        SelectSeq(documentSymbols,
                  LAMBDA symbol : /\ symbol.kind \in MAJOR_SYMBOL_KINDS
                                  /\ symbol.kind \notin EXPORTED_SYMBOL_KINDS))

\* b.priority - a.priority || a.range.start.line - b.range.start.line, as a sign:
\* positive when b belongs before a
CompareCandidates(a, b) ==
    IF b.priority # a.priority THEN b.priority - a.priority
    ELSE a.range.start.line - b.range.start.line

\* the candidates in the order they were pushed
PushOrder(cs) == cs

\* candidates.sort(...): stable
RECURSIVE InsertCandidate(_, _)
InsertCandidate(sorted, x) ==
    IF Len(sorted) = 0 THEN <<x>>
    ELSE IF CompareCandidates(Head(sorted), x) > 0 THEN <<x>> \o sorted
    ELSE <<Head(sorted)>> \o InsertCandidate(Tail(sorted), x)

RECURSIVE SortCandidates(_)
SortCandidates(cs) ==
    IF Len(cs) = 0 THEN <<>>
    ELSE InsertCandidate(SortCandidates(SubSeq(cs, 1, Len(cs) - 1)), cs[Len(cs)])

\* the candidates of steps 1 to 6 in the order they are pushed, sorted
SortedCandidates(exported, internal) ==
    IF exported.outcome = "threw" \/ internal.outcome = "threw" THEN Thrown
    ELSE Returned(SortCandidates(
             ActiveSymbolCandidates \o PreambleCandidates \o ImportCandidates
             \o exported.value \o CallCandidates \o internal.value))

\* lines 542-764: the sorted candidate list, or a TypeError
BuildCandidates == SortedCandidates(ExportedCandidates, InternalCandidates)

\* candidate.contentOverride ? candidate.contentOverride : extractContentForRange(...)
ContentRaw(candidate) ==
    IF candidate.contentOverride # "" THEN candidate.contentOverride
    ELSE extractContentForRange(fileContent, candidate.range)

\* includedRanges.some((r) => r.contains(position))
IsCovered(pos) == \E n \in 1..Len(includedRanges) : Contains(includedRanges[n], pos)

\* the inner loop of the fallback pass (lines 802-809)
RECURSIVE BlockEndLine(_)
BlockEndLine(blockEndLine) ==
    IF blockEndLine + 1 < Len(fileLines) /\ ~IsCovered(Position(blockEndLine + 1, 0))
    THEN BlockEndLine(blockEndLine + 1)
    ELSE blockEndLine

\* collectedParts.sort((a, b) => a.startLine - b.startLine): stable
RECURSIVE InsertPart(_, _)
InsertPart(sorted, x) ==
    IF Len(sorted) = 0 THEN <<x>>
    ELSE IF Head(sorted).startLine - x.startLine > 0 THEN <<x>> \o sorted
    ELSE <<Head(sorted)>> \o InsertPart(Tail(sorted), x)

RECURSIVE SortParts(_)
SortParts(ps) ==
    IF Len(ps) = 0 THEN <<>>
    ELSE InsertPart(SortParts(SubSeq(ps, 1, Len(ps) - 1)), ps[Len(ps)])

SectionSeparator == "\n\n// ... (non-contiguous section) ...\n\n"

\* the content of each part, in order
Contents(parts) == [n \in 1..Len(parts) |-> parts[n].content]

\* lines 839-842: the blocks in source order, joined
JoinedContent == Join(Contents(SortParts(collectedParts)), SectionSeparator)

\* lines 844-847
CutToBudget(joined) ==
    IF Len(joined) > maxAllowedLength
    THEN Substring(joined, 0, maxAllowedLength) \o "\n// ... (truncated)"
    ELSE joined

FallbackSnippet ==
    "// File content could not be summarized. Snippet: "
        \o Substring(fileContent, 0, Min(Len(fileContent), 100)) \o "..."

\* a return without the fallback snippet
TrimmedContent(finalContent) == Trim(finalContent)

\* lines 849-857
ReturnValue(finalContent) ==
    IF Trim(finalContent) = "" /\ Len(fileContent) > 0
    THEN FallbackSnippet
    ELSE Trim(finalContent)

\* ---- inputs ----
MaxLines == 2

LineAlphabet == {"", "// c", "from x", "f() {", "a = bbbbbbbbbbbbbbbbbbbb;"}

FileTexts ==
    {Join(ls, "\n") : ls \in UNION {[1..n -> LineAlphabet] : n \in 1..MaxLines}}

Budgets == {30, 60, 100, 150, 400}

SymbolKindsUsed == {"Function", "Interface", "Variable", "Method"}

\* the end column of line i: the length of the line, 0 beyond the file
EndColumn(lines, i) == IF HasLine(lines, i) THEN Len(LineAt(lines, i)) ELSE 0

\* a symbol named f over lines s..e; an interface that spans lines has a property
\* on its last line
SymbolAt(lines, kind, s, e) ==
    [kind |-> kind, name |-> "f",
     range |-> Range(s, 0, e, EndColumn(lines, e)),
     selectionRange |-> Range(s, 0, s, Min(1, EndColumn(lines, s))),
     detail |-> "",
     children |-> IF kind = "Interface" /\ e > s
                  THEN <<[kind |-> "Property", name |-> "p",
                          range |-> Range(e, 0, e, EndColumn(lines, e)),
                          selectionRange |-> Range(e, 0, e, Min(1, EndColumn(lines, e))),
                          detail |-> "string", children |-> <<>>]>>
                  ELSE <<>>]

\* the pairs s, e of lines with s <= e, each a line of the file or one of the two
\* lines after its last
LineSpans(lines) ==
    {span \in (0..(Len(lines) + 1)) \X (0..(Len(lines) + 1)) : span[1] <= span[2]}

\* two methods of one line each, the later one listed first
TwoMethods(lines) ==
    IF Len(lines) >= 2
    THEN {<<SymbolAt(lines, "Method", 1, 1), SymbolAt(lines, "Method", 0, 0)>>}
    ELSE {}

\* no symbols, one symbol over one of the line spans, or the two methods
SymbolLists(lines) ==
    {<<>>} \cup {<<SymbolAt(lines, kind, span[1], span[2])>> :
                    kind \in SymbolKindsUsed, span \in LineSpans(lines)}
          \cup TwoMethods(lines)

ThisFile == "/w/a.ts"

\* no active symbol; the symbol itself, called from another file; or a symbol g
\* on the first line that calls the symbol, reported with a Windows path
ActiveInfos(lines, symbols) ==
    {<<>>} \cup
    (IF Len(symbols) = 0 THEN {}
     ELSE {<<[name |-> symbols[1].name, kind |-> symbols[1].kind,
              fullRange |-> symbols[1].range, filePath |-> ThisFile,
              incomingCalls |-> <<[from |-> [uri |-> [fsPath |-> "/w/b.ts"], name |-> "g"],
                                   fromRanges |-> <<Range(0, 0, 0, 1)>>]>>,
              outgoingCalls |-> <<>>]>>,
           <<[name |-> "g", kind |-> "Function",
              fullRange |-> Range(0, 0, 0, EndColumn(lines, 0)), filePath |-> "\\w\\a.ts",
              incomingCalls |-> <<>>,
              outgoingCalls |-> <<[to |-> [uri |-> [fsPath |-> ThisFile],
                                          name |-> symbols[1].name,
                                          range |-> symbols[1].range]]>>]>>})

SummarizeIdle ==
    /\ fileContent = "" /\ fileLines = <<"">> /\ documentSymbols = <<>>
    /\ activeSymbolDetailedInfo = <<>>
    /\ maxAllowedLength = 0 /\ spc = "idle" /\ currentLength = 0 /\ collectedParts = <<>>
    /\ includedRanges = <<>> /\ candidates = <<>> /\ ci = 0 /\ currentLine = 0
    /\ result = "" /\ offered = <<>>

SummarizeInit ==
    /\ fileContent \in FileTexts
    /\ fileLines = SplitLines(fileContent)
    /\ documentSymbols \in SymbolLists(fileLines)
    /\ activeSymbolDetailedInfo \in ActiveInfos(fileLines, documentSymbols)
    /\ maxAllowedLength \in Budgets
    /\ spc = "start" /\ currentLength = 0 /\ collectedParts = <<>>
    /\ includedRanges = <<>> /\ candidates = <<>> /\ ci = 0 /\ currentLine = 0
    /\ result = "" /\ offered = <<>>

inputs == <<fileContent, fileLines, documentSymbols, activeSymbolDetailedInfo,
            maxAllowedLength>>

\* the call goes on with the candidates built, or ends with the TypeError
StartWith(built) ==
    IF built.outcome = "threw"
    THEN spc' = "threw" /\ UNCHANGED <<candidates, ci>>
    ELSE spc' = "candidates" /\ candidates' = built.value /\ ci' = 1

\* lines 420-764: the candidates are collected and sorted; a symbol whose lines
\* are beyond the file makes the call throw
SummarizeStart ==
    /\ spc = "start"
    /\ StartWith(BuildCandidates)
    /\ UNCHANGED <<gvars, uvars, dvars, inputs, currentLength, collectedParts, includedRanges,
                   currentLine, result, offered>>

\* lines 774-784: the candidate is offered unless its content is blank
OfferCandidate(candidate, contentRaw) ==
    IF Trim(contentRaw) # ""
    THEN addContentBlock(contentRaw, candidate.range, candidate.marker,
                         candidate.description, candidate.desiredBlockLength)
    ELSE UNCHANGED <<collectedParts, currentLength, includedRanges, offered>>

\* lines 767-785: one iteration of the loop over the candidates
ProcessCandidate ==
    /\ spc = "candidates"
    /\ ci <= Len(candidates)
    /\ currentLength < maxAllowedLength
    /\ OfferCandidate(candidates[ci], ContentRaw(candidates[ci]))
    /\ ci' = ci + 1
    /\ UNCHANGED <<gvars, uvars, dvars, inputs, spc, candidates, currentLine, result>>

\* the loop over the candidates ends: the list is exhausted or the budget reached
CandidatesDone ==
    /\ spc = "candidates"
    /\ ci > Len(candidates) \/ currentLength >= maxAllowedLength
    /\ spc' = "fallback"
    /\ currentLine' = 0
    /\ UNCHANGED <<gvars, uvars, dvars, inputs, currentLength, collectedParts, includedRanges,
                   candidates, ci, result, offered>>

\* a fallback pass that offers nothing
NoSnippet(snippetContent, snippetRange, blockEndLine) ==
    UNCHANGED <<collectedParts, currentLength, includedRanges, offered>>

\* lines 819-831: the snippet is offered unless it is blank
OfferSnippet(snippetContent, snippetRange, blockEndLine) ==
    IF Trim(snippetContent) # ""
    THEN addContentBlock(snippetContent, snippetRange, MARKERS.CONTEXT,
                         "Lines " \o ToString(currentLine + 1) \o "-"
                             \o ToString(blockEndLine + 1),
                         maxAllowedLength - currentLength)
    ELSE UNCHANGED <<collectedParts, currentLength, includedRanges, offered>>

\* lines 811-819: the range of the lines currentLine..blockEndLine
SnippetRange(blockEndLine) ==
    Range(currentLine, 0, blockEndLine, Len(LineAt(fileLines, blockEndLine)))

\* lines 800-832: the uncovered lines currentLine..blockEndLine are offered
FallbackBlock(blockEndLine) ==
    /\ OfferSnippet(extractContentForRange(fileContent, SnippetRange(blockEndLine)),
                    SnippetRange(blockEndLine), blockEndLine)
    /\ currentLine' = blockEndLine + 1

\* lines 790-835: one iteration of the fallback loop
FallbackStep ==
    /\ spc = "fallback"
    /\ currentLine < Len(fileLines)
    /\ currentLength < maxAllowedLength
    /\ IF ~IsCovered(Position(currentLine, 0))
       THEN FallbackBlock(BlockEndLine(currentLine))
       ELSE /\ currentLine' = currentLine + 1
            /\ UNCHANGED <<collectedParts, currentLength, includedRanges, offered>>
    /\ UNCHANGED <<gvars, uvars, dvars, inputs, spc, candidates, ci, result>>

\* lines 838-857: the fallback loop has ended; assemble and return
FinalAssembly ==
    /\ spc = "fallback"
    /\ ~(currentLine < Len(fileLines) /\ currentLength < maxAllowedLength)
    /\ result' = ReturnValue(CutToBudget(JoinedContent))
    /\ spc' = "done"
    /\ UNCHANGED <<gvars, uvars, dvars, inputs, currentLength, collectedParts, includedRanges,
                   candidates, ci, currentLine, offered>>

SummarizeNext ==
    SummarizeStart \/ ProcessCandidate \/ CandidatesDone \/ FallbackStep \/ FinalAssembly


(***************************************************************************)
(* The dependency graph builder and its cache                              *)
(***************************************************************************)

\* dependencyCache.delete(key)
MapDelete(map, key) == SelectSeq(map, LAMBDA entry : entry.k # key)

\* s.lastIndexOf(c) of one character, or -1
RECURSIVE LastIndexFrom(_, _, _)
LastIndexFrom(s, c, i) ==
    IF i < 0 THEN -1 ELSE IF CharAt(s, i) = c THEN i ELSE LastIndexFrom(s, c, i - 1)

\* the last segment of a path
BaseName(p) == SubstringFrom(p, LastIndexFrom(p, "/", Len(p) - 1) + 1)

\* path.extname(p): from the last "." of the last segment to its end, or "" when
\* there is no "." or the segment starts with its only "."
ExtName(p) ==
    LET dot == LastIndexFrom(BaseName(p), ".", Len(BaseName(p)) - 1)
    IN  IF dot <= 0 THEN "" ELSE SubstringFrom(BaseName(p), dot)

\* path.relative(from, to) for a path at or below from (the scanned files of a
\* workspace lie below its root)
Relative(from, to) ==
    IF to = from THEN ""
    ELSE IF StartsWith(to, from \o "/") THEN SubstringFrom(to, Len(from) + 1)
    ELSE to

skipExtensions ==
    {".png", ".jpg", ".jpeg", ".gif", ".svg", ".ico", ".woff", ".woff2", ".ttf", ".otf"}

\* a DependencyRelation
Relation(path, relationType) == [path |-> path, relationType |-> relationType]

\* a forward graph: a Map object (id tells objects apart, 0 for one the caller
\* made itself) and its entries, importer -> relations
Graph(id, entries) == [id |-> id, entries |-> entries]

NoGraph == Graph(-1, <<>>)

\* lines 229-240: the relations of one importer, pushed onto the reverse graph
RECURSIVE ReverseRelations(_, _, _)
ReverseRelations(importerPath, importedRelations, reverse) ==
    IF Len(importedRelations) = 0 THEN reverse
    ELSE ReverseRelations(importerPath, Tail(importedRelations),
             MapSet(reverse, Head(importedRelations).path,
                    Append(MapGetOr(reverse, Head(importedRelations).path, <<>>),
                           Relation(importerPath, Head(importedRelations).relationType))))

\* lines 225-241: the reverse graph of the entries of a forward graph
RECURSIVE ReverseEntries(_, _)
ReverseEntries(entries, reverse) ==
    IF Len(entries) = 0 THEN reverse
    ELSE ReverseEntries(Tail(entries),
                        ReverseRelations(Head(entries).k, Head(entries).v, reverse))

NoRoot == "undefined"

\* lines 214-217: the cache entry of projectRoot holds this very graph object
ReverseIsCached(fileDependencies, projectRoot, cache) ==
    /\ projectRoot # NoRoot
    /\ MapHas(cache, projectRoot)
    /\ MapGet(cache, projectRoot).dependencyGraph = fileDependencies

\* what buildReverseDependencyGraph returns
buildReverseDependencyGraph(fileDependencies, projectRoot, cache) ==
    IF ReverseIsCached(fileDependencies, projectRoot, cache)
    THEN MapGet(cache, projectRoot).reverseDependencyGraph
    ELSE ReverseEntries(fileDependencies.entries, <<>>)

\* lines 244-250: the cache after buildReverseDependencyGraph
CacheAfterReverse(fileDependencies, projectRoot, cache) ==
    IF ReverseIsCached(fileDependencies, projectRoot, cache) THEN cache
    ELSE IF projectRoot # NoRoot /\ MapHas(cache, projectRoot)
    THEN MapSet(cache, projectRoot,
                [MapGet(cache, projectRoot) EXCEPT
                     !.reverseDependencyGraph = ReverseEntries(fileDependencies.entries, <<>>)])
    ELSE cache

\* lines 51-55: a cache entry that is fresh and of the same file count
CacheHit(call, cache, time) ==
    /\ call.useCache
    /\ MapHas(cache, call.projectRoot)
    /\ time - MapGet(cache, call.projectRoot).timestamp < call.cacheTimeout
    /\ MapGet(cache, call.projectRoot).fileCount = Len(call.allScannedFiles)

\* Math.ceil(filesToProcess.length / 10)
BatchSize(call) == (Len(call.allScannedFiles) + 9) \div 10

Workspaces == {"/w1", "/w2"}

\* the files of a workspace under their names
ScannedFiles(projectRoot, names) ==
    [k \in 1..Len(names) |-> projectRoot \o "/" \o names[k]]

FileNameLists == {<<>>, <<"a.ts">>, <<"a.ts", "img/i.PNG">>, <<"a.ts", "b.ts">>}

\* every file of the inputs
AllScannedFiles ==
    UNION {{ScannedFiles(projectRoot, names)[k] : k \in 1..Len(names)} :
              projectRoot \in Workspaces, names \in FileNameLists}

\* line 107: path.extname(fileUri.fsPath).toLowerCase(), for every file of the inputs
ext == [fsPath \in AllScannedFiles |-> ToLowerCase(ExtName(fsPath))]

\* a failure that keeps its retry count
RetriesKept(retryCount) == retryCount

\* line 135: retries of the entry that a failed attempt pushes
RetriesAfter(retryCount) == retryCount + 1

\* lines 99-145: processFile of file k, once its parse has returned or thrown
processFile(b, k, retryCount, parsed) ==
    LET uri == b.call.allScannedFiles[k]
    IN  IF ext[uri] \in skipExtensions THEN b
        ELSE IF parsed.outcome = "returned"
        THEN [b EXCEPT !.attempts[k] = @ + 1, !.lastFailed[k] = FALSE,
                       !.dependencyGraph.entries =
                           MapSet(@, Relative(b.call.projectRoot, uri), parsed.value)]
        ELSE IF retryCount < b.call.maxRetries /\ b.call.retryFailedFiles
        THEN [b EXCEPT !.attempts[k] = @ + 1, !.lastFailed[k] = TRUE,
                       !.failedFiles = Append(@, [uri |-> uri,
                                                  retries |-> RetriesAfter(retryCount)])]
        ELSE [b EXCEPT !.attempts[k] = @ + 1, !.lastFailed[k] = TRUE]

\* lines 174-178: the for-of loop over failedFiles from position idx on, up to
\* its next await
RECURSIVE NextRetry(_, _)
NextRetry(b, idx) ==
    IF idx > Len(b.failedFiles) THEN [b EXCEPT !.pc = "finish"]
    ELSE IF b.failedFiles[idx].retries <= b.call.maxRetries
    THEN [b EXCEPT !.pc = "retry", !.retryIndex = idx]
    ELSE NextRetry(b, idx + 1)

\* line 171: after the batch loop
AfterBatches(b) ==
    IF Len(b.failedFiles) > 0 /\ b.call.retryFailedFiles
    THEN NextRetry(b, 1)
    ELSE [b EXCEPT !.pc = "finish"]

\* lines 151-160: the batch loop at i, up to its await of BPromise.map
EnterBatch(b, i) ==
    IF i < Len(b.call.allScannedFiles)
    THEN [b EXCEPT !.pc = "batch", !.i = i,
                   !.pending = {k \in 1..Len(b.call.allScannedFiles) :
                                    i < k /\ k <= i + BatchSize(b.call)}]
    ELSE AfterBatches(b)

\* position in allScannedFiles of a uri
FileIndex(call, uri) ==
    CHOOSE k \in 1..Len(call.allScannedFiles) : call.allScannedFiles[k] = uri

\* ---- inputs ----
MaxRetries == 2
MaxBuilds == 2
MaxTime == 1
AttemptCap == MaxRetries + 2

Builders == {1, 2}
DefaultCacheTimeout == 10 * 60 * 1000

\* what parseFileImports gives for a file: a list of relations, or it throws
ImportLists == {<<Relation("b.ts", "runtime"), Relation("lib/x.ts", "type")>>}

ParseOutcomes == {Thrown} \cup {Returned(imports) : imports \in ImportLists}

\* graphs a caller has made itself
CallerGraphs == {Graph(0, <<[k |-> "b.ts", v |-> <<Relation("a.ts", "runtime")>>]>>)}

BuildCall(projectRoot, names, useCache, cacheTimeout, retryFailedFiles, maxRetries) ==
    [projectRoot |-> projectRoot, allScannedFiles |-> ScannedFiles(projectRoot, names),
     useCache |-> useCache, cacheTimeout |-> cacheTimeout,
     retryFailedFiles |-> retryFailedFiles, maxRetries |-> maxRetries]

NoCall == BuildCall(NoRoot, <<>>, FALSE, 0, FALSE, 0)

\* one workspace, every retry option
RetryCalls ==
    {BuildCall("/w1", names, useCache, DefaultCacheTimeout, retryFailedFiles, maxRetries) :
        names \in FileNameLists,
        useCache \in BOOLEAN, retryFailedFiles \in BOOLEAN, maxRetries \in 0..MaxRetries}

\* calls that meet in the cache: one workspace with two file counts, the larger
\* with a short timeout and a retry, and a second workspace
CacheCalls ==
    {BuildCall("/w1", <<"a.ts">>, TRUE, DefaultCacheTimeout, FALSE, 1),
     BuildCall("/w1", <<"a.ts", "b.ts">>, TRUE, 1, TRUE, 1),
     BuildCall("/w2", <<"a.ts">>, TRUE, DefaultCacheTimeout, FALSE, 1)}

\* a caller that has not called yet
IdleBuild(call) ==
    [call |-> call, pc |-> "idle", dependencyGraph |-> NoGraph, failedFiles |-> <<>>,
     i |-> 0, pending |-> {}, retryIndex |-> 0, attempts |-> <<>>, lastFailed |-> <<>>,
     returned |-> NoGraph, fromCache |-> FALSE]

InProgress(b) == b.pc \in {"config", "batch", "retry", "finish"}

DepsIdle ==
    /\ dependencyCache = <<>> /\ now = 0 /\ graphsMade = 0 /\ clearedDuring = {}
    /\ builds = [p \in Builders |-> IdleBuild(NoCall)]

\* one caller, which builds the graph of one workspace
RetryInit ==
    /\ dependencyCache = <<>> /\ now = 0 /\ graphsMade = 0 /\ clearedDuring = {}
    /\ \E call \in RetryCalls :
           builds = [p \in Builders |-> IdleBuild(IF p = 1 THEN call ELSE NoCall)]

\* two callers
CacheInit ==
    /\ dependencyCache = <<>> /\ now = 0 /\ graphsMade = 0 /\ clearedDuring = {}
    /\ \E c1, c2 \in CacheCalls :
           builds = [p \in Builders |-> IdleBuild(IF p = 1 THEN c1 ELSE c2)]

\* ---- actions ----

\* lines 39-83: a call of buildDependencyGraph up to its first await; a cache
\* hit returns at once
StartBuild(p) ==
    /\ builds[p].call # NoCall
    /\ builds[p].pc \in {"idle", "returned"}
    /\ IF CacheHit(builds[p].call, dependencyCache, now)
       THEN /\ builds' = [builds EXCEPT ![p] =
                  [IdleBuild(builds[p].call) EXCEPT
                       !.pc = "returned", !.fromCache = TRUE,
                       !.returned = MapGet(dependencyCache,
                                           builds[p].call.projectRoot).dependencyGraph]]
            /\ graphsMade' = graphsMade
       ELSE /\ graphsMade < MaxBuilds
            /\ builds' = [builds EXCEPT ![p] =
                  [IdleBuild(builds[p].call) EXCEPT
                       !.pc = "config",
                       !.dependencyGraph = Graph(graphsMade + 1, <<>>),
                       !.attempts = [k \in 1..Len(builds[p].call.allScannedFiles) |-> 0],
                       !.lastFailed =
                           [k \in 1..Len(builds[p].call.allScannedFiles) |-> FALSE]]]
            /\ graphsMade' = graphsMade + 1
    /\ UNCHANGED <<gvars, svars, uvars, dependencyCache, now, clearedDuring>>

\* lines 83-151: findAndLoadTsConfig has returned; the first batch starts
ConfigLoaded(p) ==
    /\ builds[p].pc = "config"
    /\ builds' = [builds EXCEPT ![p] = EnterBatch(builds[p], 0)]
    /\ UNCHANGED <<gvars, svars, uvars, dependencyCache, now, graphsMade, clearedDuring>>

\* lines 154-168: processFile of one file of the batch returns; after the last
\* one the loop goes on to the next batch
ProcessFileSettles(p, k, parsed) ==
    /\ builds[p].pc = "batch"
    /\ k \in builds[p].pending
    /\ builds[p].attempts[k] < AttemptCap
    /\ LET b == [processFile(builds[p], k, 0, parsed) EXCEPT !.pending = @ \ {k}]
       IN  builds' = [builds EXCEPT ![p] =
               IF b.pending = {} THEN EnterBatch(b, b.i + BatchSize(b.call)) ELSE b]
    /\ UNCHANGED <<gvars, svars, uvars, dependencyCache, now, graphsMade, clearedDuring>>

\* lines 174-178: the processFile of failedFiles[retryIndex] returns
RetrySettles(p, parsed) ==
    /\ builds[p].pc = "retry"
    /\ LET failedFile == builds[p].failedFiles[builds[p].retryIndex]
           k == FileIndex(builds[p].call, failedFile.uri)
       IN  /\ builds[p].attempts[k] < AttemptCap
           /\ builds' = [builds EXCEPT ![p] =
                  NextRetry(processFile(builds[p], k, failedFile.retries, parsed),
                            builds[p].retryIndex + 1)]
    /\ UNCHANGED <<gvars, svars, uvars, dependencyCache, now, graphsMade, clearedDuring>>

\* lines 181-198: the build caches its graph and returns it
BuildReturns(p) ==
    /\ builds[p].pc = "finish"
    /\ dependencyCache' =
           IF builds[p].call.useCache
           THEN MapSet(dependencyCache, builds[p].call.projectRoot,
                    [timestamp |-> now,
                     dependencyGraph |-> builds[p].dependencyGraph,
                     reverseDependencyGraph |->
                         buildReverseDependencyGraph(builds[p].dependencyGraph, NoRoot,
                                                     dependencyCache),
                     workspacePath |-> builds[p].call.projectRoot,
                     fileCount |-> Len(builds[p].call.allScannedFiles)])
           ELSE dependencyCache
    /\ builds' = [builds EXCEPT ![p].pc = "returned",
                                ![p].returned = builds[p].dependencyGraph]
    /\ UNCHANGED <<gvars, svars, uvars, now, graphsMade, clearedDuring>>

\* the graphs a caller can hold: those the builds returned and those in the cache
HeldGraphs ==
    {builds[p].returned : p \in {q \in Builders : builds[q].pc = "returned"}}
        \cup {dependencyCache[n].v.dependencyGraph : n \in 1..Len(dependencyCache)}

\* lines 209-253: a call of buildReverseDependencyGraph
CallBuildReverse(fileDependencies, projectRoot) ==
    /\ dependencyCache' = CacheAfterReverse(fileDependencies, projectRoot, dependencyCache)
    /\ UNCHANGED <<gvars, svars, uvars, now, builds, graphsMade, clearedDuring>>

\* the builds of a workspace that are in progress
BuildsInProgress(workspacePaths) ==
    {builds[p].dependencyGraph.id :
        p \in {q \in Builders : /\ InProgress(builds[q])
                                /\ builds[q].call.projectRoot \in workspacePaths}}

\* lines 259-261: clearDependencyCache(workspacePath)
ClearWorkspace(workspacePath) ==
    /\ dependencyCache' = MapDelete(dependencyCache, workspacePath)
    /\ clearedDuring' = clearedDuring \cup BuildsInProgress({workspacePath})
    /\ UNCHANGED <<gvars, svars, uvars, now, builds, graphsMade>>

\* lines 262-264: clearDependencyCache()
ClearAll ==
    /\ dependencyCache' = <<>>
    /\ clearedDuring' = clearedDuring \cup BuildsInProgress(Workspaces)
    /\ UNCHANGED <<gvars, svars, uvars, now, builds, graphsMade>>

\* time passes
Tick ==
    /\ now < MaxTime
    /\ now' = now + 1
    /\ UNCHANGED <<gvars, svars, uvars, dependencyCache, builds, graphsMade, clearedDuring>>

BuildNext ==
    \E p \in Builders :
        \/ StartBuild(p)
        \/ ConfigLoaded(p)
        \/ \E k \in builds[p].pending, parsed \in ParseOutcomes :
              ProcessFileSettles(p, k, parsed)
        \/ \E parsed \in ParseOutcomes : RetrySettles(p, parsed)
        \/ BuildReturns(p)

CacheNext ==
    \/ BuildNext
    \/ \E fileDependencies \in HeldGraphs \cup CallerGraphs,
          projectRoot \in Workspaces \cup {NoRoot} :
              CallBuildReverse(fileDependencies, projectRoot)
    \/ \E workspacePath \in Workspaces : ClearWorkspace(workspacePath)
    \/ ClearAll
    \/ Tick
(***************************************************************************)
(* A call of one helper of codeAnalysisUtils on its own                    *)
(***************************************************************************)

MaxUtilLines == 4

UtilLineAlphabet == {"", "  ", "// c", "/* d", " * e", "x;"}

\* the texts of 1 to n lines over an alphabet of lines
TextsOver(alphabet, n) ==
    {Join(ls, "\n") : ls \in UNION {[1..k -> alphabet] : k \in 1..n}}

UtilTexts == TextsOver(UtilLineAlphabet, MaxUtilLines)

\* a function of one line that starts on a line of the file or on one of the two
\* lines after its last
UtilSymbols(lines) == {SymbolAt(lines, "Function", s, s) : s \in 0..(Len(lines) + 1)}

\* the argument a call does not take
NoRange == Range(0, 0, 0, 0)

NoSymbol == SymbolAt(<<"">>, "Function", 0, 0)

UtilCall(callee, text, symbol, range) ==
    [callee |-> callee, content |-> text, symbol |-> symbol, range |-> range]

\* the calls of getDocumentationRange
DocumentationCalls ==
    UNION {{UtilCall("getDocumentationRange", text, symbol, NoRange) :
               symbol \in UtilSymbols(SplitLines(text))} : text \in UtilTexts}

MaxDeclLines == 3

DeclLineAlphabet == {"x;", "a{b{", "  f() {"}

DeclKinds == {"Function", "Interface", TypeAliasKind, "Variable"}

\* a symbol from (s, sc) to (e, ec) whose selection range is its first two characters
DeclSymbol(kind, s, sc, e, ec) ==
    [kind |-> kind, name |-> "f",
     range |-> Range(s, sc, e, ec),
     selectionRange |-> Range(s, sc, s, sc + 2),
     detail |-> "", children |-> <<>>]

\* symbols over the line spans of the file and of the line after its last; they
\* start on column 0 or 2 and end on column 1 or 7
DeclSymbols(lines) ==
    {DeclSymbol(kind, span[1], sc, span[2], ec) :
        kind \in DeclKinds,
        span \in {sp \in (0..Len(lines)) \X (0..Len(lines)) : sp[1] <= sp[2]},
        sc \in {0, 2}, ec \in {1, 7}}

\* the calls of getDeclarationRange
DeclarationCalls ==
    UNION {{UtilCall("getDeclarationRange", text, symbol, NoRange) :
               symbol \in DeclSymbols(SplitLines(text))} :
           text \in TextsOver(DeclLineAlphabet, MaxDeclLines)}

MaxRangeLines == 2

RangeLineAlphabet == {"", "ab", "cdef"}

RangeColumns == {0, 1, 3}

\* ranges as records, the start line after the end line included; the lines run
\* from the one before the file to the one after it
RawRanges(lines) ==
    {[start |-> Position(sl, sc), end |-> Position(el, ec)] :
        sl \in -1..Len(lines), el \in -1..Len(lines), sc \in RangeColumns, ec \in RangeColumns}

\* the calls of extractContentForRange; a range within one line has its columns
\* in order
ExtractCalls ==
    UNION {{UtilCall("extractContentForRange", text, NoSymbol, range) :
               range \in {r \in RawRanges(SplitLines(text)) :
                             r.start.line = r.end.line =>
                                 r.start.character <= r.end.character}} :
           text \in TextsOver(RangeLineAlphabet, MaxRangeLines)}

UtilCalls == DocumentationCalls \cup DeclarationCalls \cup ExtractCalls

UtilIdle ==
    /\ utilContent = "" /\ utilSymbol = NoSymbol /\ utilRange = NoRange
    /\ upc = "idle" /\ utilCallee = "" /\ utilResult = Null

UtilInit ==
    /\ \E call \in UtilCalls :
          /\ utilCallee = call.callee /\ utilContent = call.content
          /\ utilSymbol = call.symbol /\ utilRange = call.range
    /\ upc = "call" /\ utilResult = Null

\* getDocumentationRange(fullContent, symbol) is called and returns or throws
CallGetDocumentationRange ==
    /\ upc = "call"
    /\ utilCallee = "getDocumentationRange"
    /\ utilResult' = getDocumentationRange(utilContent, utilSymbol)
    /\ upc' = "returned"
    /\ UNCHANGED <<gvars, svars, dvars, utilContent, utilSymbol, utilRange, utilCallee>>

\* getDeclarationRange(fullContent, symbol) is called and returns or throws
CallGetDeclarationRange ==
    /\ upc = "call"
    /\ utilCallee = "getDeclarationRange"
    /\ utilResult' = getDeclarationRange(utilContent, utilSymbol)
    /\ upc' = "returned"
    /\ UNCHANGED <<gvars, svars, dvars, utilContent, utilSymbol, utilRange, utilCallee>>

\* extractContentForRange(fullContent, range) is called and returns
CallExtractContentForRange ==
    /\ upc = "call"
    /\ utilCallee = "extractContentForRange"
    /\ utilResult' = Returned(extractContentForRange(utilContent, utilRange))
    /\ upc' = "returned"
    /\ UNCHANGED <<gvars, svars, dvars, utilContent, utilSymbol, utilRange, utilCallee>>

UtilNext ==
    CallGetDocumentationRange \/ CallGetDeclarationRange \/ CallExtractContentForRange

(***************************************************************************)
(* Specifications                                                          *)
(***************************************************************************)

\* buildSemanticGraph on every corpus of at most MaxDocs documents
InitGraph == GraphInit /\ SummarizeIdle /\ UtilIdle /\ DepsIdle

SpecGraph == InitGraph /\ [][GraphNext]_vars

\* intelligentlySummarizeFileContent on every file of at most MaxLines lines
InitSummarize == SummarizeInit /\ GraphIdle /\ UtilIdle /\ DepsIdle

SpecSummarize == InitSummarize /\ [][SummarizeNext]_vars

\* one call of a helper on every file of its inputs
InitUtil == UtilInit /\ GraphIdle /\ SummarizeIdle /\ DepsIdle

SpecUtil == InitUtil /\ [][UtilNext]_vars


\* one caller of buildDependencyGraph, with every retry option
InitRetry == RetryInit /\ GraphIdle /\ SummarizeIdle /\ UtilIdle

SpecRetry == InitRetry /\ [][BuildNext]_vars

\* every parse call returns or throws, and every continuation runs
SpecRetryFair == SpecRetry /\ WF_vars(BuildNext)

\* two callers of buildDependencyGraph, with buildReverseDependencyGraph and
\* clearDependencyCache between their awaits
InitCache == CacheInit /\ GraphIdle /\ SummarizeIdle /\ UtilIdle

SpecCache == InitCache /\ [][CacheNext]_vars
(***************************************************************************)
(* Properties of buildSemanticGraph                                        *)
(***************************************************************************)

GraphDone == gpc = "done"

DocIndices == 1..Len(fileSummaries)

\* the link list of a path in the returned graph (empty when the path is no key)
LinksOf(path) == MapGetOr(semanticGraph, path, <<>>)

HasLink(from, to, score) ==
    \E n \in 1..Len(LinksOf(from)) :
        LinksOf(from)[n] = [relatedPath |-> to, score |-> score]

LinkedTo(from, to) ==
    \E n \in 1..Len(LinksOf(from)) : LinksOf(from)[n].relatedPath = to

\* the terms of a summary that survive the stop-word and length filter
SurvivingTerms(tokens) == {tokens[n] : n \in {m \in 1..Len(tokens) : Survives(tokens[m])}}

\* the surviving terms of document i
TermsOf(i) == SurvivingTerms(Tokens(fileSummaries[i].summary))

\* some document of the corpus lacks a surviving term of document i
SomeDocumentLacksTermOf(i) == \E k \in DocIndices : ~(TermsOf(i) \subseteq TermsOf(k))

\* 1.0 up to the rounding of two square roots, a product and a quotient
NearOne(s) ==
    \/ s.e = -(Precision - 1) /\ s.m <= Pow2(Precision - 1) + 2
    \/ s.e = -Precision /\ s.m >= Pow2(Precision) - 4

IdenticalPair(i, j) ==
    /\ i # j
    /\ fileSummaries[i].summary = fileSummaries[j].summary
    /\ TermsOf(i) # {}

\* C3 as stated: in any corpus of at least two documents, two documents with
\* identical summaries that contain a surviving term get similarity exactly 1.0
\* and are linked to each other.
C3_Original ==
    GraphDone /\ Len(fileSummaries) >= 2 =>
        \A i, j \in DocIndices :
            IdenticalPair(i, j) =>
                /\ HasLink(filePaths[i], filePaths[j], FOne)
                /\ HasLink(filePaths[j], filePaths[i], FOne)

\* C3 amended: two documents with identical summaries that contain a surviving
\* term which at least one document of the corpus lacks are linked to each other,
\* with one score in both directions that is 1.0 up to floating-point rounding.
C3_IdenticalLinked ==
    GraphDone =>
        \A i, j \in DocIndices :
            IdenticalPair(i, j) /\ SomeDocumentLacksTermOf(i) =>
                \E n \in 1..Len(LinksOf(filePaths[i])) :
                    LET link == LinksOf(filePaths[i])[n]
                    IN  /\ link.relatedPath = filePaths[j]
                        /\ NearOne(link.score)
                        /\ HasLink(filePaths[j], filePaths[i], link.score)

C3_Witness ==
    /\ GraphDone
    /\ \E i, j \in DocIndices :
          /\ IdenticalPair(i, j)
          /\ SomeDocumentLacksTermOf(i)
          /\ LinkedTo(filePaths[i], filePaths[j])

\* C4: in the returned graph, A lists {B, s} exactly when B lists {A, s}.
C4_Symmetric ==
    GraphDone =>
        \A a, b \in DocIndices :
            \A n \in 1..Len(LinksOf(filePaths[a])) :
                LET link == LinksOf(filePaths[a])[n]
                IN  link.relatedPath = filePaths[b] =>
                        HasLink(filePaths[b], filePaths[a], link.score)

C4_Witness ==
    /\ GraphDone
    /\ \E a, b \in DocIndices :
          a # b /\ LinkedTo(filePaths[a], filePaths[b]) /\ LinkedTo(filePaths[b], filePaths[a])

\* C5: every link of the returned graph has a score s with 0.01 < s <= 1.
C5_ScoreInRange ==
    GraphDone =>
        \A a \in DocIndices :
            \A n \in 1..Len(LinksOf(filePaths[a])) :
                LET s == LinksOf(filePaths[a])[n].score
                IN  FGt(s, FThreshold) /\ ~FGt(s, FOne)


\* every one of the tokens is a stop word or a single character
AllStopWordsOrShort(tokens) ==
    \A n \in 1..Len(tokens) : tokens[n] \in STOP_WORDS \/ Len(tokens[n]) <= 1

\* the summary is empty or has only stop words and one-character tokens
OnlyStopWordsOrShort(summary) == AllStopWordsOrShort(Tokens(summary))

\* the similarity the pair loop computes for documents i and j
SimilarityOf(i, j) ==
    calculateCosineSimilarity(MapGet(tfidfVectors, filePaths[i]),
                              MapGet(tfidfVectors, filePaths[j]))

\* C11: a document whose summary is empty or has only stop words and
\* one-character tokens has similarity 0 with every other document, and occurs in
\* the returned graph neither as a key nor as a relatedPath.
C11_NoTermsNoLinks ==
    /\ gpc = "pairs" =>
           \/ ~\E i \in {gi, gj} : OnlyStopWordsOrShort(fileSummaries[i].summary)
           \/ SimilarityOf(gi, gj) = FZero
    /\ GraphDone =>
           \A i \in DocIndices :
               OnlyStopWordsOrShort(fileSummaries[i].summary) =>
                   /\ ~MapHas(semanticGraph, filePaths[i])
                   /\ \A a \in DocIndices : ~LinkedTo(filePaths[a], filePaths[i])

C11_Witness ==
    /\ GraphDone
    /\ semanticGraph # <<>>
    /\ \E i \in DocIndices :
          /\ fileSummaries[i].summary # ""
          /\ OnlyStopWordsOrShort(fileSummaries[i].summary)

\* C12: every link list of the returned graph is in non-increasing score order.
C12_SortedDescending ==
    GraphDone =>
        \A a \in DocIndices :
            \A n \in 1..(Len(LinksOf(filePaths[a])) - 1) :
                ~FGt(LinksOf(filePaths[a])[n + 1].score, LinksOf(filePaths[a])[n].score)

\* position of a path in the corpus
IndexOfPath(path) == CHOOSE i \in DocIndices : filePaths[i] = path

\* a returned list whose order differs from the order of the pushes (the pair
\* loop pushes the links of one file by ascending index of the related file)
C12_Witness ==
    /\ GraphDone
    /\ \E a \in DocIndices :
          \E n \in 1..(Len(LinksOf(filePaths[a])) - 1) :
              /\ FGt(LinksOf(filePaths[a])[n].score, LinksOf(filePaths[a])[n + 1].score)
              /\ IndexOfPath(LinksOf(filePaths[a])[n].relatedPath)
                     > IndexOfPath(LinksOf(filePaths[a])[n + 1].relatedPath)

\* C13: a corpus of zero or one document gives the empty mapping.
C13_SmallCorpusEmpty ==
    GraphDone /\ Len(fileSummaries) < 2 => semanticGraph = <<>>

C13_Witness ==
    /\ GraphDone
    /\ Len(fileSummaries) = 1
    /\ TermsOf(1) # {}
    /\ semanticGraph = <<>>

\* documents a and b share a surviving term that some document of the corpus lacks
ShareTermSomeDocumentLacks(a, b) ==
    \E t \in TermsOf(a) \cap TermsOf(b) : \E c \in DocIndices : t \notin TermsOf(c)

\* C24: two documents are linked in the returned graph only if they share a
\* surviving term that at least one document of the corpus lacks; the graph of a
\* corpus of exactly two documents is empty.
C24_LinkNeedsRareSharedTerm ==
    GraphDone =>
        /\ \A a, b \in DocIndices :
               LinkedTo(filePaths[a], filePaths[b]) => ShareTermSomeDocumentLacks(a, b)
        /\ Len(fileSummaries) = 2 => semanticGraph = <<>>

\* two documents that share a term and have a term of their own each, so that
\* neither vector is zero, and the graph is empty
C24_Witness ==
    /\ GraphDone
    /\ Len(fileSummaries) = 2
    /\ TermsOf(1) \cap TermsOf(2) # {}
    /\ TermsOf(1) \ TermsOf(2) # {}
    /\ TermsOf(2) \ TermsOf(1) # {}
    /\ semanticGraph = <<>>

(***************************************************************************)
(* Properties of intelligentlySummarizeFileContent                         *)
(***************************************************************************)

SummarizeDone == spc = "done"

\* the lines of the returned string
ResultLines == SplitLines(result)

\* the markers a header can carry
SectionMarkers == {MARKERS[k] : k \in DOMAIN MARKERS} \ {MARKERS.END_SECTION}

\* a complete header line of a section with this marker
IsHeaderOf(line, marker) ==
    \/ line = "// [" \o marker \o "]"
    \/ StartsWith(line, "// [" \o marker \o ": ") /\ EndsWith(line, "]")

IsHeader(line) == \E marker \in SectionMarkers : IsHeaderOf(line, marker)

FooterLine(marker) == "// [" \o MARKERS.END_SECTION \o ": " \o marker \o "]"

\* line i is a header that its footer follows before any other header
Closed(lines, i, marker) ==
    \E j \in (i + 1)..Len(lines) :
        /\ lines[j] = FooterLine(marker)
        /\ \A k \in (i + 1)..(j - 1) : ~IsHeader(lines[k])

\* the number of lines two ranges share: those of their intersection, when it is
\* more than a single position
SharedLines(a, b) ==
    IF Intersection(a, b).outcome = "returned" /\ ~IsEmpty(Intersection(a, b).value)
    THEN LineCount(Intersection(a, b).value)
    ELSE 0

\* fewer than 70% of the lines of range
UnderSeventyPercent(shared, range) == 10 * shared < 7 * LineCount(range)

AcceptedIndices == 1..Len(includedRanges)

\* every symbol's lines are lines of the file
SymbolsWithinFile ==
    \A n \in 1..Len(documentSymbols) : documentSymbols[n].range.end.line < Len(fileLines)

\* C1: for a positive budget B the returned string has length at most B.
C1_LengthWithinBudget ==
    SummarizeDone /\ maxAllowedLength > 0 => Len(result) <= maxAllowedLength

\* C2 as stated: at the end of a call, any two distinct accepted blocks share
\* fewer lines than 70% of the line count of either of them (already for symbols
\* that lie within the file).
C2_Original ==
    SummarizeDone /\ SymbolsWithinFile =>
        \A m, n \in AcceptedIndices :
            m # n =>
                /\ UnderSeventyPercent(SharedLines(includedRanges[m], includedRanges[n]),
                                       includedRanges[m])
                /\ UnderSeventyPercent(SharedLines(includedRanges[m], includedRanges[n]),
                                       includedRanges[n])

\* C2 amended: at the end of a call, any two accepted blocks share fewer lines
\* than 70% of the line count of the one that was accepted later.
C2_LaterBlockMostlyNew ==
    SummarizeDone =>
        \A m, n \in AcceptedIndices :
            m < n => UnderSeventyPercent(SharedLines(includedRanges[m], includedRanges[n]),
                                         includedRanges[n])

\* a call ends with two accepted blocks that share a line
C2_Witness ==
    /\ SummarizeDone
    /\ \E m, n \in AcceptedIndices :
          m < n /\ SharedLines(includedRanges[m], includedRanges[n]) > 0

\* C6: a non-empty file text gives a non-empty returned string.
C6_NonEmptyOutput ==
    SummarizeDone /\ Len(fileContent) > 0 => Len(result) > 0

\* a call on a non-empty file accepts no block and returns the fallback snippet
C6_Witness ==
    /\ SummarizeDone
    /\ Len(fileContent) > 0
    /\ collectedParts = <<>>
    /\ result = FallbackSnippet

\* C7: every header line of the returned string is followed, before the next
\* header or the end of the string, by the footer of its marker.
C7_SectionsWellFormed ==
    SummarizeDone =>
        \A i \in 1..Len(ResultLines) :
            \A marker \in SectionMarkers :
                IsHeaderOf(ResultLines[i], marker) => Closed(ResultLines, i, marker)

\* C8: the call never raises an error, whatever lines the symbols' ranges name.
C8_NeverRaises == spc # "threw"

\* the text between "// [SIGNATURE: " and "]" of a header line
SignatureDescription(line) ==
    Substring(line, Len("// [" \o MARKERS.SIGNATURE \o ": "), Len(line) - 1)

\* the output has a SIGNATURE section whose description contains name and whose
\* body holds no opening brace
HasSignatureSection(lines, name) ==
    \E i \in 1..Len(lines) :
        /\ IsHeaderOf(lines[i], MARKERS.SIGNATURE)
        /\ Includes(SignatureDescription(lines[i]), name)
        /\ \E j \in (i + 1)..Len(lines) :
              /\ lines[j] = FooterLine(MARKERS.SIGNATURE)
              /\ \A k \in (i + 1)..(j - 1) : ~IsHeader(lines[k]) /\ ~Includes(lines[k], "{")

\* the file's only symbol is a function whose lines the file has and whose first
\* line is code that is no import; no active symbol is given; the budget holds
\* every block the file can give
SingleExportedFunction ==
    /\ Len(documentSymbols) = 1
    /\ documentSymbols[1].kind = "Function"
    /\ Len(activeSymbolDetailedInfo) = 0
    /\ SymbolsWithinFile
    /\ ~IsCommentOrEmpty(Trim(LineAt(fileLines, documentSymbols[1].range.start.line)))
    /\ ~IsImportLike(Trim(LineAt(fileLines, documentSymbols[1].range.start.line)))
    /\ maxAllowedLength >= 400

\* C9: for a file whose only symbol is one exported function and a budget that
\* holds its framed signature, the output has a SIGNATURE section with the
\* function's name in the description and no opening brace in the body, wherever
\* the function is and whatever its body lines are.
C9_SignatureSection ==
    SummarizeDone /\ SingleExportedFunction =>
        HasSignatureSection(ResultLines, documentSymbols[1].name)

\* the budget is below the header plus footer of every block that was offered
BudgetBelowEveryFrame ==
    \A n \in 1..Len(offered) : maxAllowedLength < offered[n].frame

\* the returned string holds a header, a footer or a truncation marker
HasMarkerText(s) ==
    \/ Includes(s, "// [")
    \/ Includes(s, "(section truncated)")
    \/ Includes(s, "(truncated)")

\* C10: when the budget is below the header plus footer of every candidate and
\* fallback block, no block is accepted and the output is the empty string (empty
\* file) or the fallback snippet, without header, footer or truncation marker.
C10_NothingFits ==
    SummarizeDone /\ BudgetBelowEveryFrame =>
        /\ collectedParts = <<>>
        /\ \/ result = "" /\ fileContent = ""
           \/ result = FallbackSnippet
        /\ ~HasMarkerText(result)

\* a call in which blocks were offered, all with a frame above the budget
C10_Witness ==
    /\ SummarizeDone
    /\ BudgetBelowEveryFrame
    /\ Len(offered) > 0
    /\ \A n \in 1..Len(offered) : ~offered[n].added
    /\ result = FallbackSnippet

\* the block of an offer carries the truncation marker of addContentBlock
IsTruncatedBlock(offer) ==
    offer.added /\ EndsWith(offer.content, TruncationMessage \o FooterPart(offer.marker))

\* the characters of body text between the header and the truncation marker
TruncatedBodyLength(offer) == Len(offer.content) - offer.frame - Len(TruncationMessage)

\* C14: every accepted block that carries the truncation marker holds at least
\* 30 characters of body text before the marker.
C14_TruncatedKeepsThirty ==
    \A n \in 1..Len(offered) :
        IsTruncatedBlock(offered[n]) => TruncatedBodyLength(offered[n]) >= 30

\* accepted block n starts on the line right after the last line of accepted block m
AdjacentInSource(m, n) ==
    includedRanges[n].start.line = includedRanges[m].end.line + 1

\* C15: two accepted blocks whose source ranges are adjacent (the second starts
\* on the line right after the first ends) are joined in the returned string
\* without the "non-contiguous section" separator between them (already for
\* symbols that lie within the file).
C15_NoSeparatorBetweenAdjacent ==
    SummarizeDone /\ SymbolsWithinFile =>
        \A m, n \in AcceptedIndices :
            AdjacentInSource(m, n) =>
                ~Includes(result,
                          collectedParts[m].content \o SectionSeparator
                              \o collectedParts[n].content)

\* a line of an import block: import-like, a comment or blank
IsImportBlockLine(trimmed) ==
    IsImportLike(trimmed) \/ IsCommentShaped(trimmed) \/ trimmed = ""

\* the candidates are built
CandidatesBuilt == spc \in {"candidates", "fallback", "done"}

\* C16: every line in the range of the IMPORTS candidate is an import-like line,
\* a comment line or a blank line, also when code stands between the preamble
\* and the first import-like line.
C16_ImportBlockHasNoCode ==
    CandidatesBuilt =>
        \A n \in 1..Len(candidates) :
            candidates[n].marker = MARKERS.IMPORTS =>
                \A i \in candidates[n].range.start.line..candidates[n].range.end.line :
                    IsImportBlockLine(Trim(LineAt(fileLines, i)))

\* the step is a call of addContentBlock that rejects its candidate
RejectingCall ==
    /\ Len(offered') = Len(offered) + 1
    /\ ~offered'[Len(offered')].added

\* C17: a call of addContentBlock that rejects its candidate leaves the running
\* length, the collected parts and the included ranges as they were.
C17_RejectionLeavesState ==
    [][RejectingCall => UNCHANGED <<currentLength, collectedParts, includedRanges>>]_vars

\* a candidate was rejected for its overlap (the space left held its frame and
\* more than 30 characters) after another block had been accepted
C17_Witness ==
    \E n \in 1..Len(offered) :
        /\ ~offered[n].added
        /\ offered[n].before > 0
        /\ maxAllowedLength - offered[n].before - offered[n].frame > 30

\* the offers made by the loop over the candidates
OfferedCandidates == {n \in 1..Len(offered) : offered[n].phase = "candidates"}

\* the priority of the candidate of an offer of the loop over the candidates
PriorityOf(n) == candidates[offered[n].ci].priority

\* offer m belongs before offer n: higher priority, or the same priority and a
\* start line that is not later
InCandidateOrder(m, n) ==
    \/ PriorityOf(m) > PriorityOf(n)
    \/ /\ PriorityOf(m) = PriorityOf(n)
       /\ offered[m].range.start.line <= offered[n].range.start.line

\* C18: candidate blocks are accepted in descending priority, ties in ascending
\* start line, all of them before any fallback block, and no block is accepted
\* once the running length has reached the budget.
C18_CandidateOrder ==
    /\ \A m, n \in OfferedCandidates :
          m < n /\ offered[m].added /\ offered[n].added => InCandidateOrder(m, n)
    /\ \A m, n \in 1..Len(offered) :
          m < n /\ offered[m].phase = "fallback" => offered[n].phase = "fallback"
    /\ \A n \in 1..Len(offered) :
          offered[n].added => offered[n].before < maxAllowedLength

\* two candidates of one priority were accepted in start-line order although the
\* symbol of the later line is listed first
C18_Witness ==
    /\ Len(documentSymbols) = 2
    /\ documentSymbols[1].range.start.line > documentSymbols[2].range.start.line
    /\ \E m, n \in OfferedCandidates :
          /\ m < n /\ offered[m].added /\ offered[n].added
          /\ PriorityOf(m) = PriorityOf(n)
          /\ offered[m].range.start.line < offered[n].range.start.line

\* the budget is not used up (neither loop ended for it), no block carries the
\* truncation marker, and every candidate that was rejected had room for its frame
\* and more than 30 characters
NoBlockShortOfSpace ==
    /\ currentLength < maxAllowedLength
    /\ \A n \in 1..Len(offered) :
          /\ ~IsTruncatedBlock(offered[n])
          /\ ~offered[n].added =>
                 maxAllowedLength - offered[n].before - offered[n].frame > 30

\* line i lies within the line span of an accepted range
InAcceptedSpan(i) ==
    \E n \in AcceptedIndices :
        includedRanges[n].start.line <= i /\ i <= includedRanges[n].end.line

\* the offers made by the fallback pass
OfferedFallback == {n \in 1..Len(offered) : offered[n].phase = "fallback"}

RECURSIVE TotalLength(_)
TotalLength(parts) ==
    IF Len(parts) = 0 THEN 0 ELSE Len(Head(parts).content) + TotalLength(Tail(parts))

\* C23: for a positive budget, in every state of the packer the running length
\* is the sum of the lengths of the collected blocks and at most the budget, and
\* there are as many included ranges as collected parts.
C23_PackerInvariant ==
    maxAllowedLength > 0 =>
        /\ currentLength = TotalLength(collectedParts)
        /\ currentLength <= maxAllowedLength
        /\ Len(collectedParts) = Len(includedRanges)

\* a truncated block has filled the budget to the last character
C23_Witness ==
    /\ maxAllowedLength > 0
    /\ Len(collectedParts) >= 1
    /\ \E n \in 1..Len(offered) : IsTruncatedBlock(offered[n])
    /\ currentLength = maxAllowedLength

(***************************************************************************)
(* Properties of getDocumentationRange                                     *)
(***************************************************************************)

UtilLines == SplitLines(utilContent)

DocumentationRangeReturned == upc = "returned" /\ utilCallee = "getDocumentationRange"

\* the lines above the symbol that hold more than whitespace
TextLinesAbove ==
    {i \in 0..(utilSymbol.range.start.line - 1) :
        HasLine(UtilLines, i) /\ Trim(LineAt(UtilLines, i)) # ""}

\* the nearest of them
NearestTextLineAbove == CHOOSE i \in TextLinesAbove : \A j \in TextLinesAbove : j <= i

\* the line starts, after its indentation, with //, /* or *
StartsLikeComment(line) ==
    \E opening \in {"//", "/*", "*"} : StartsWith(Trim(line), opening)

NoCommentAbove ==
    \/ TextLinesAbove = {}
    \/ ~StartsLikeComment(LineAt(UtilLines, NearestTextLineAbove))

\* the symbol starts on a line of the file or on the line after its last
SymbolStartsByTheFile == utilSymbol.range.start.line <= Len(UtilLines)

\* C20: for a symbol that starts on a line of the file or right after its last,
\* getDocumentationRange returns null exactly when no line with text stands above
\* the symbol or the nearest such line is not comment-shaped; otherwise it returns
\* a range that ends on that line, whose lines are all blank or comment-shaped and
\* whose first line is not blank.
C20_DocumentationRange ==
    DocumentationRangeReturned /\ SymbolStartsByTheFile =>
        /\ utilResult.outcome \in {"null", "returned"}
        /\ utilResult.outcome = "null" <=> NoCommentAbove
        /\ utilResult.outcome = "returned" =>
              /\ utilResult.value.end.line = NearestTextLineAbove
              /\ utilResult.value.start.line <= utilResult.value.end.line
              /\ \A i \in utilResult.value.start.line..utilResult.value.end.line :
                    \/ Trim(LineAt(UtilLines, i)) = ""
                    \/ StartsLikeComment(LineAt(UtilLines, i))
              /\ Trim(LineAt(UtilLines, utilResult.value.start.line)) # ""

\* a returned range with a blank line inside and a blank line right above it
C20_Witness ==
    /\ DocumentationRangeReturned
    /\ utilResult.outcome = "returned"
    /\ utilResult.value.start.line > 0
    /\ Trim(LineAt(UtilLines, utilResult.value.start.line - 1)) = ""
    /\ \E i \in utilResult.value.start.line..utilResult.value.end.line :
          Trim(LineAt(UtilLines, i)) = ""

(***************************************************************************)
(* Properties of getDeclarationRange                                       *)
(***************************************************************************)

DeclarationRangeReturned == upc = "returned" /\ utilCallee = "getDeclarationRange"

\* the symbol's range lies inside the file
SymbolInsideFile ==
    /\ utilSymbol.range.start.line >= 0
    /\ utilSymbol.range.end.line < Len(UtilLines)

\* the positions of the opening braces on the lines from..to, those before the
\* symbol's start column on its first line left out
BracesOnLines(from, to) ==
    {pos \in UNION {{Position(i, c) : c \in 0..(Len(LineAt(UtilLines, i)) - 1)} :
                        i \in {k \in from..to : HasLine(UtilLines, k)}} :
        /\ CharAt(LineAt(UtilLines, pos.line), pos.character) = "{"
        /\ pos.line = utilSymbol.range.start.line =>
               pos.character >= utilSymbol.range.start.character}

\* the first of a non-empty set of positions
FirstPosition(positions) ==
    CHOOSE p \in positions : \A q \in positions : IsBeforeOrEqual(p, q)

IsBlockSymbol ==
    utilSymbol.kind \in {"Class", "Function", "Method", "Constructor", "Module",
                         "Namespace", "Enum"}

\* what the declaration range is when the braces to look at are these
ExpectedDeclarationRange(braces) ==
    IF IsBlockSymbol
    THEN IF braces # {}
         THEN [start |-> utilSymbol.range.start, end |-> FirstPosition(braces)]
         ELSE utilSymbol.selectionRange
    ELSE IF utilSymbol.kind \in {"Interface", TypeAliasKind}
    THEN utilSymbol.selectionRange
    ELSE utilSymbol.range

\* the call returned the range expected for these braces, and the text of a
\* range up to a brace holds no brace
ReturnsDeclarationRange(braces) ==
    /\ utilResult.outcome = "returned"
    /\ utilResult.value = ExpectedDeclarationRange(braces)
    /\ IsBlockSymbol /\ braces # {} =>
           ~Includes(extractContentForRange(utilContent, utilResult.value), "{")

\* C21 as stated: for a symbol inside the file, a block kind with an opening
\* brace anywhere at or after the symbol's start gives the range from the start
\* to the first such brace.
C21_Original ==
    DeclarationRangeReturned /\ SymbolInsideFile =>
        ReturnsDeclarationRange(
            BracesOnLines(utilSymbol.range.start.line, Len(UtilLines) - 1))

\* C21 amended: for a symbol inside the file, a block kind with an opening brace
\* on one of the symbol's lines, at or after its start, gives the range from the
\* start to the first such brace, and the text of that range holds no brace; a
\* block kind without one, an interface and a type alias give the selection
\* range; every other kind gives the full range.
C21_DeclarationRange ==
    DeclarationRangeReturned /\ SymbolInsideFile =>
        ReturnsDeclarationRange(
            BracesOnLines(utilSymbol.range.start.line, utilSymbol.range.end.line))

\* the brace found for a function that starts behind another brace of its line
C21_Witness ==
    /\ DeclarationRangeReturned
    /\ SymbolInsideFile
    /\ utilSymbol.kind = "Function"
    /\ utilResult.outcome = "returned"
    /\ Includes(Substring(LineAt(UtilLines, utilSymbol.range.start.line), 0,
                          utilSymbol.range.start.character), "{")
    /\ utilResult.value.end = Position(utilSymbol.range.start.line, 3)

(***************************************************************************)
(* Properties of extractContentForRange                                    *)
(***************************************************************************)

ExtractReturned == upc = "returned" /\ utilCallee = "extractContentForRange"

\* the start line is negative, the end line is at or beyond the number of lines,
\* or the start line is after the end line
InvalidRange ==
    \/ utilRange.start.line < 0
    \/ utilRange.end.line >= Len(UtilLines)
    \/ utilRange.start.line > utilRange.end.line

\* the characters of a line from column from up to, not including, column to
Columns(line, from, to) ==
    IF Min(from, Len(line)) >= Min(to, Len(line)) THEN ""
    ELSE SubSeq(line, Min(from, Len(line)) + 1, Min(to, Len(line)))

\* line i of the range: cut at the start column when it is the first line, at the
\* end column when it is the last
CutLine(i) ==
    Columns(LineAt(UtilLines, i),
            IF i = utilRange.start.line THEN utilRange.start.character ELSE 0,
            IF i = utilRange.end.line THEN utilRange.end.character
            ELSE Len(LineAt(UtilLines, i)))

\* the cut lines from line i to the end line, with a newline between them
RECURSIVE CutLinesFrom(_)
CutLinesFrom(i) ==
    IF i = utilRange.end.line THEN CutLine(i)
    ELSE CutLine(i) \o "\n" \o CutLinesFrom(i + 1)

\* C22: extractContentForRange returns the empty string, without raising,
\* when the start line is negative, the end line is at or beyond the number of
\* lines, or the start line is after the end line; for every other range it
\* returns the lines from the start line to the end line, the first cut at the
\* start column and the last at the end column (exclusive).
C22_ExtractContent ==
    ExtractReturned =>
        /\ utilResult.outcome = "returned"
        /\ utilResult.value = IF InvalidRange THEN "" ELSE CutLinesFrom(utilRange.start.line)

\* a range over two lines that cuts both
C22_Witness ==
    /\ ExtractReturned
    /\ ~InvalidRange
    /\ utilRange.start.line < utilRange.end.line
    /\ utilRange.start.character > 0
    /\ utilRange.end.character < Len(LineAt(UtilLines, utilRange.end.line))
    /\ Len(utilResult.value) > 1

\* ---- the dependency graph builder ----

\* the entries of the dependency cache
CacheEntries == {dependencyCache[n].v : n \in 1..Len(dependencyCache)}

\* a Map of relation lists has a relation of this path and type under this key
Lists(map, key, path, relationType) ==
    \E n \in 1..Len(MapGetOr(map, key, <<>>)) :
        MapGetOr(map, key, <<>>)[n] = Relation(path, relationType)

\* the paths and relation types a pair of graphs speaks of
PathsOf(map) ==
    {map[n].k : n \in 1..Len(map)}
        \cup UNION {{map[n].v[m].path : m \in 1..Len(map[n].v)} : n \in 1..Len(map)}

RelationTypes == {"runtime", "type", "unknown"}

\* reverse lists A under B with type t exactly when forward lists B under A with type t
IsReverseOf(reverse, forward) ==
    \A a, b \in PathsOf(reverse) \cup PathsOf(forward) :
        \A t \in RelationTypes :
            Lists(reverse, b, a, t) <=> Lists(forward, a, b, t)

\* C25: every entry of the dependency cache holds a reverseDependencyGraph that
\* is exactly the reverse of the dependencyGraph of the same entry.
C25_CacheConsistent ==
    \A entry \in CacheEntries :
        IsReverseOf(entry.reverseDependencyGraph, entry.dependencyGraph.entries)

\* C26: a call of buildDependencyGraph that is answered from the cache never
\* returns the graph of a build that was in progress when its workspace was
\* cleared.
C26_ClearedStaysCleared ==
    \A p \in Builders :
        builds[p].pc = "returned" /\ builds[p].fromCache =>
            builds[p].returned.id \notin clearedDuring

\* the files of the run of caller p
FilesOf(p) == 1..Len(builds[p].call.allScannedFiles)

Skipped(p, k) == ext[builds[p].call.allScannedFiles[k]] \in skipExtensions

\* the run of caller p has built its graph and returned it
RanToEnd(p) == builds[p].pc = "returned" /\ ~builds[p].fromCache

NoRetries(p) == ~builds[p].call.retryFailedFiles \/ builds[p].call.maxRetries = 0

\* no file is parsed more than maxRetries + 1 times
AtMostMaxRetriesPlusOne ==
    \A p \in Builders : \A k \in FilesOf(p) :
        Len(builds[p].attempts) > 0 =>
            builds[p].attempts[k] <= builds[p].call.maxRetries + 1

\* a file whose last attempt failed is not in the returned graph
FailedIsAbsent ==
    \A p \in Builders : \A k \in FilesOf(p) :
        RanToEnd(p) /\ builds[p].lastFailed[k] =>
            ~MapHas(builds[p].returned.entries,
                    Relative(builds[p].call.projectRoot, builds[p].call.allScannedFiles[k]))

\* every run that has started returns
EveryRunReturns ==
    \A p \in Builders : InProgress(builds[p]) ~> builds[p].pc = "returned"

\* C27 as stated: a run returns, parses each scanned file at most
\* maxRetries + 1 times, exactly once when retryFailedFiles is false or
\* maxRetries is 0, and leaves a file whose last attempt failed out of the graph.
C27_Original ==
    /\ AtMostMaxRetriesPlusOne
    /\ FailedIsAbsent
    /\ \A p \in Builders : \A k \in FilesOf(p) :
           RanToEnd(p) /\ NoRetries(p) => builds[p].attempts[k] = 1

\* C27 amended: a run returns; it never parses a file of a skipped extension,
\* parses each other scanned file at least once and at most maxRetries + 1
\* times, exactly once when retryFailedFiles is false or maxRetries is 0; and a
\* file whose last attempt failed is not in the returned graph.
C27_RetriesBounded ==
    /\ [](/\ AtMostMaxRetriesPlusOne
          /\ FailedIsAbsent
          /\ \A p \in Builders : \A k \in FilesOf(p) :
                RanToEnd(p) =>
                    IF Skipped(p, k) THEN builds[p].attempts[k] = 0
                    ELSE /\ builds[p].attempts[k] >= 1
                         /\ NoRetries(p) => builds[p].attempts[k] = 1)
    /\ EveryRunReturns

\* a run with maxRetries = 2 that has parsed one file three times, failed each
\* time, and returned without it
C27_Witness ==
    \E k \in FilesOf(1) :
        /\ RanToEnd(1)
        /\ builds[1].call.maxRetries = 2
        /\ builds[1].attempts[k] = 3
        /\ builds[1].lastFailed[k]
        /\ Len(builds[1].failedFiles) >= 2
====
